---- MODULE Spec2Model ----
(***************************************************************************)
(* Model of the automation client: the session handler of connect_and_run  *)
(* (main.rs), the two-phase ReAct executor (agents/react_loop.rs), the     *)
(* delegating tool executor (main.rs), the step channel with its writer    *)
(* task, the agent and prompt stores (agents/storage.rs,                   *)
(* agents/prompt_storage.rs) and the dispatch of the protocol frames.      *)
(*                                                                         *)
(* Spec is the chat path on a socket that stays up, SockSpec the chat path *)
(* on a socket that can fail, ProtoSpec the connection loop and every      *)
(* frame but chat_request, CrashSpec the store requests of a process that  *)
(* can stop at any point and be started again, ConvSpec one call of        *)
(* ConversationalAgent::execute (agents/conversational/agent.rs),          *)
(* RelaySpec one run of WebSocketRelayClient::run with its writer task and *)
(* its handler tasks (websocket/client.rs), DetectorSpec the calls of      *)
(* LoopDetector::check_loop on one detector (core/tool.rs), InterpSpec one *)
(* call of AdvancedInterpolator::interpolate (config/interpolation.rs).    *)
(*                                                                         *)
(* Strings that the code inspects are sequences of one-character strings.  *)
(* The LLM and the tools are the environment: every call returns one of a  *)
(* small set of outcomes, chosen nondeterministically.                     *)
(***************************************************************************)
EXTENDS Integers, Sequences, FiniteSets, TLC

\* ---------------------------------------------------------------- bounds
\* largest maxIterations a chat_request carries in the model
MaxIterations == 3
\* largest number of tool calls in one action response of the LLM
MaxCalls == 2
\* largest number of delegate_to_agent calls the LLM issues in one chat
MaxDelegations == 4
\* largest number of tool calls the LLM issues in one chat
MaxToolCalls == 4
\* largest number of writes of a store file that fail in one run
MaxSaveFailures == 1
\* tool calls in one response handed to ConversationalAgent::execute
MaxConvCalls == 3
\* inbound messages that WebSocketRelayClient::run reads before the close
MaxRelayMessages == 2
\* execution steps that the handler of one chat request sends
MaxRelaySteps == 2
\* max_history of the LoopDetector of the model
DetectorMaxHistory == 3
\* calls of check_loop on one LoopDetector
MaxChecks == 4
\* turns of the loop of interpolate_functions that the model follows
MaxInterpTurns == 3

\* ------------------------------------------------------ program constants
\* max_delegation_depth of the ToolExecutionContext built for a chat
MaxDelegationDepth == 3
\* capacity of the loop-detection history
HistoryCap == 10
\* number of earlier occurrences at which is_loop_detected answers true
LoopThreshold == 2
\* maxIterations of the agent record the model keeps in the agent store
WorkerIterations == 1

\* ------------------------------------------------------------- strings
Blank == " "
GOAL_COMPLETE == <<"G","O","A","L","_","C","O","M","P","L","E","T","E">>

LowerChars == <<"g","o","a","l","c","m","p","e","t","k">>
UpperChars == <<"G","O","A","L","C","M","P","E","T","K">>

\* char::to_uppercase on the characters the model uses
UpperChar(c) ==
    IF \E i \in DOMAIN LowerChars : LowerChars[i] = c
    THEN UpperChars[CHOOSE i \in DOMAIN LowerChars : LowerChars[i] = c]
    ELSE c

\* a comparison that keeps the letter case
to_uppercase_keeps_case(s) == s

\* str::to_uppercase
to_uppercase(s) == [i \in DOMAIN s |-> UpperChar(s[i])]

\* str::contains
contains(s, pat) ==
    \E i \in 0..(Len(s) - Len(pat)) : SubSeq(s, i + 1, i + Len(pat)) = pat

\* str::trim
RECURSIVE trim_start(_)
trim_start(s) ==
    IF s # <<>> /\ Head(s) = Blank THEN trim_start(Tail(s)) ELSE s

RECURSIVE trim_end(_)
trim_end(s) ==
    IF s # <<>> /\ s[Len(s)] = Blank THEN trim_end(SubSeq(s, 1, Len(s) - 1)) ELSE s

trim(s) == trim_end(trim_start(s))

\* the reasoning texts the LLM returns in the model
ReasoningTexts ==
    { <<Blank>>,
      GOAL_COMPLETE,
      <<Blank,"o","k",Blank,"G","o","a","l","_","c","o","m","p","l","e","t","e",Blank>>,
      <<"g","o","a","l","_","c","o","m","p">> }

\* ------------------------------------------------------------ the tools
DelegateTool == "delegate_to_agent"

\* get_all_automation_tools, get_all_web_tools, get_all_utility_tools: the
\* identifiers of the tool definitions
get_all_automation_tools ==
    {"mouse_move", "mouse_click", "mouse_scroll", "keyboard_input",
     "keyboard_command", "get_mouse_position", "take_screenshot"}
get_all_web_tools == {"web_search", "fetch_url"}
get_all_utility_tools == {DelegateTool}

\* tools::get_all_tools: the catalogue of every tool module
get_all_tools == get_all_automation_tools \cup get_all_web_tools \cup get_all_utility_tools

\* get_available_tools
ToolTable == get_all_tools
UnknownTool == "no_such_tool"

\* the agent that delegations name
WorkerAgent == "worker-agent"

\* ToolCallSignature::new: the tool name and the serialized arguments
ToolCallSignature(name, arguments) == <<name, arguments>>

\* the tool calls the LLM returns in the model
ToolCalls ==
    { ToolCallSignature("mouse_move", "x0y0"),
      ToolCallSignature(DelegateTool, WorkerAgent) }

IsDelegateCall(call) == call[1] = DelegateTool

RECURSIVE SeqsUpTo(_, _)
SeqsUpTo(S, n) ==
    IF n = 0 THEN { <<>> }
    ELSE LET shorter == SeqsUpTo(S, n - 1)
         IN  shorter \cup { Append(q, x) : q \in shorter, x \in S }

\* the non-empty tool-call lists of one action response
ToolCallLists == SeqsUpTo(ToolCalls, MaxCalls) \ { <<>> }

CountIn(seq, x) == Cardinality({ i \in DOMAIN seq : seq[i] = x })

NumDelegations(calls) == Cardinality({ i \in DOMAIN calls : IsDelegateCall(calls[i]) })

\* ---------------------------------------------------------------- state
VARIABLES
    hpc,        \* position of the session handler in connect_and_run
    agents,     \* AgentStorage.agents: id -> record
    stack,      \* the ReAct executions in flight, top-level first
    chan,       \* the step channel: steps sent and not yet received
    senders,    \* the holders of a live sender of the step channel
    streamer,   \* the step_streamer task: "none", "running" or "done"
    frames,     \* the frames written to the socket for the current request
    result,     \* the value the top-level execute returned
    nsent,      \* number of steps sent on the channel in this chat
    ndeleg,     \* number of delegate_to_agent calls the LLM has issued
    ncalls,     \* number of tool calls the LLM has issued
    lastEvent,  \* what the last step of the model did
    returned,   \* the executions that returned in the last step
    refused,    \* the delegation targets the depth check refused in this chat
    sock,       \* the relay socket of the session: "open", "broken", or
                \* "dropped" by a handler that returned an error of its own
    prompts,    \* PromptStorage.prompts: id -> record
    adisk,      \* the content of agents.json
    pdisk,      \* the content of prompts.json
    request,    \* the inbound frame the handler took last
    reply,      \* the frames the handler wrote in answer to it
    nsavefail,  \* number of writes of a store file that have failed
    conv,       \* one call of ConversationalAgent::execute: its position,
                \* its locals and what it returned
    relay,      \* one call of WebSocketRelayClient::run: its position, the
                \* outgoing channel, the writer task and the handler tasks
    detector,   \* a LoopDetector and the answers of its check_loop calls
    interp      \* one call of AdvancedInterpolator::interpolate

\* the state of the chat path
chatVars == <<stack, chan, senders, streamer, frames, result,
              nsent, ndeleg, ncalls, lastEvent, returned, refused>>

\* the state of the stores and of the protocol dispatch
protoVars == <<prompts, adisk, pdisk, request, reply, nsavefail>>

\* the state of a call of ConversationalAgent::execute
convVars == <<conv>>

\* the state of the components of the library crate that the session
\* handler of the binary does not use
libraryVars == <<relay, detector, interp>>

vars == <<hpc, agents, stack, chan, senders, streamer, frames, result,
          nsent, ndeleg, ncalls, lastEvent, returned, refused,
          sock, prompts, adisk, pdisk, request, reply, nsavefail, conv,
          relay, detector, interp>>

None == "none"

\* ----------------------------------------------------- values of the state
NoResult == [kind |-> None, thought |-> <<>>]
ErrResult == [kind |-> "error", thought |-> <<>>]
OkResult(kind, thought) == [kind |-> kind, thought |-> thought]

StepTx == <<"step_tx", 0>>
ExecCtxSender == <<"exec_ctx", 0>>
NestedSender(depth) == <<"nested", depth>>

NoEvent == [op |-> None, exec |-> 0, outcome |-> None, text |-> <<>>, tools |-> {}]

Event(op, f, outcome, text) ==
    [op |-> op, exec |-> f.depth, outcome |-> outcome, text |-> text, tools |-> {}]

\* the separator of the observations in the "Latest Observations" message
BlankLine == "\n\n"

RECURSIVE join_newline(_, _)
\* a join that separates the parts by a single line break
join_newline(parts, sep) ==
    IF Len(parts) <= 1 THEN parts
    ELSE << Head(parts), "\n" >> \o join_newline(Tail(parts), sep)

RECURSIVE join(_, _)
\* observations.join: the parts with the separator between neighbours
join(parts, sep) ==
    IF Len(parts) <= 1 THEN parts
    ELSE << Head(parts), sep >> \o join(Tail(parts), sep)

\* Message of the conversation buffer; observations is empty except in the
\* "Latest Observations" message
Message(role, kind, observations) ==
    [role |-> role, kind |-> kind, observations |-> observations,
     content |-> join(observations, BlankLine)]

\* the commandId member of an inbound object: absent, a JSON string or a
\* JSON number
NoCommandId == <<"absent", "">>

\* an inbound text frame: its type member, its commandId member, its id
\* member (None when absent) and its agent or prompt payload (empty when
\* absent or not deserializable)
Request(type, commandId, id, body) ==
    [type |-> type, commandId |-> commandId, id |-> id, body |-> body]

NoRequest == Request(None, NoCommandId, None, <<>>)

\* a store file: absent, or its bytes. A complete file holds the members
\* of one JSON object, an empty or a truncated file holds no JSON value
File(state, members) == [state |-> state, members |-> members]
NoFile == File("absent", {})
EmptyFile == File("empty", {})
TruncatedFile == File("truncated", {})

\* serde_json::to_string_pretty of a map: one member per key
to_string_pretty(map) == File("complete", { << k, map[k] >> : k \in DOMAIN map })

\* whether serde_json::from_str accepts the content of a file
parses(file) == file.state = "complete"

\* serde_json::from_str of a complete file: the map of its members
from_str(file) ==
    [k \in { m[1] : m \in file.members } |->
        (CHOOSE m \in file.members : m[1] = k)[2]]

\* the agent stores the model starts from: agents.json as load() reads it,
\* with or without a record for the agent that delegations name
AgentRecord(id) ==
    [id |-> id, tools |-> {"mouse_move"}, maxIterations |-> WorkerIterations,
     isLocked |-> FALSE]

AgentStores == { [id \in ids |-> AgentRecord(id)] : ids \in SUBSET {WorkerAgent} }

\* ------------------------------------------------------- the ReAct executor
Top(M) == M.stack[Len(M.stack)]

SetTop(M, f) == [M EXCEPT !.stack[Len(M.stack)] = f]

\* a channel that hands out the step sent last first
EmitFirst(M, step) ==
    LET numbered == [step EXCEPT !.seq = M.nsent + 1]
    IN  [M EXCEPT !.nsent = @ + 1,
                  !.chan = IF streamer = "running" THEN << numbered >> \o @ ELSE @]

\* sender.send(step): the step is queued while the receiver is alive
Emit(M, step) ==
    LET numbered == [step EXCEPT !.seq = M.nsent + 1]
    IN  [M EXCEPT !.nsent = @ + 1,
                  !.chan = IF streamer = "running" THEN Append(@, numbered) ELSE @]

ActionStep(f, call) ==
    [stepNumber |-> f.iteration, action |-> call, observation |-> None,
     toolIdx |-> 0, agentId |-> f.agentId, exec |-> f.depth, start |-> f.start,
     seq |-> 0]

\* an Observation step numbered by the position of its tool call
ObservationStepByIndex(f, call, outcome) ==
    [stepNumber |-> f.idx, action |-> call, observation |-> outcome,
     toolIdx |-> f.idx, agentId |-> f.agentId, exec |-> f.depth, start |-> f.start,
     seq |-> 0]

ObservationStep(f, call, outcome) ==
    [stepNumber |-> f.iteration, action |-> call, observation |-> outcome,
     toolIdx |-> f.idx, agentId |-> f.agentId, exec |-> f.depth, start |-> f.start,
     seq |-> 0]

\* a detector that trips one occurrence later
is_loop_detected_late(history, current) == CountIn(history, current) >= LoopThreshold + 1

\* is_loop_detected
is_loop_detected(history, current) == CountIn(history, current) >= LoopThreshold

\* tool_call_history.push_back, then pop_front beyond the capacity
PushHistory(history, sig) ==
    LET pushed == Append(history, sig)
    IN  IF Len(pushed) > HistoryCap THEN Tail(pushed) ELSE pushed

\* a loop that runs one iteration too many
InLoopRangeOneMore(iteration, max_iterations) ==
    iteration >= 1 /\ iteration <= max_iterations + 1

\* for iteration in 1..=config.max_iterations
InLoopRange(iteration, max_iterations) == iteration >= 1 /\ iteration <= max_iterations

\* an executor that records every tool result as a success
ObservationOfAlwaysOk(toolResult) == "ok"

\* Err(e) of the tool executor becomes an error observation
ObservationOf(toolResult) == IF toolResult = "err" THEN "error" ELSE "ok"

FormattedObservation(call, observation) ==
    [status |-> IF observation = "error" THEN "FAILED" ELSE "SUCCESS", call |-> call]

\* what is recorded of an execution when it returns
Returned(f, res) ==
    [exec |-> f.depth, maxIter |-> f.maxIter, iteration |-> f.iteration,
     nReason |-> f.nReason, nAction |-> f.nAction,
     ndispatch |-> f.ndispatch, nfirst |-> f.nfirst, dispatched |-> f.dispatched,
     lastMessage |-> f.messages[Len(f.messages)], result |-> res]

\* a tool loop that walks the tool calls from the last to the first
tool_call_at_reversed(tool_calls, tool_idx) == tool_calls[Len(tool_calls) + 1 - tool_idx]

\* for (tool_idx, tool_call) in tool_calls.iter().enumerate(), counted
\* from one
tool_call_at(tool_calls, tool_idx) == tool_calls[tool_idx]

RECURSIVE NextIteration(_)
RECURSIVE Return(_, _)
RECURSIVE RecordObservation(_, _)

\* the head of the for loop: the next iteration, or the exhaustion return
NextIteration(M) ==
    LET f == Top(M)
    IN  IF InLoopRange(f.iteration + 1, f.maxIter)
        THEN SetTop(M, [f EXCEPT !.iteration = @ + 1, !.pc = "reason",
                                 !.calls = <<>>, !.idx = 0,
                                 !.observations = <<>>])
        ELSE Return(M, OkResult("max_iterations", <<>>))

\* execute returns res: to the session handler at top level, to the
\* delegating tool executor of the parent otherwise
Return(M, res) ==
    LET f == Top(M)
        rest == SubSeq(M.stack, 1, Len(M.stack) - 1)
        M1 == [M EXCEPT !.stack = rest,
                        !.returned = Append(@, Returned(f, res))]
    IN  IF rest = <<>>
        THEN [M1 EXCEPT !.result = res, !.senders = @ \ {StepTx}]
        ELSE RecordObservation([M1 EXCEPT !.senders = @ \ {NestedSender(f.depth)}],
                               IF res.kind = "error" THEN "err" ELSE "ok")

\* the tail of the tool loop body: the Observation step, then the next
\* tool call or the observation message and the next iteration
RecordObservation(M, toolResult) ==
    LET f == Top(M)
        call == tool_call_at(f.calls, f.idx)
        observation == ObservationOf(toolResult)
        M1 == Emit(M, ObservationStep(f, call, observation))
        f1 == [f EXCEPT !.observations = Append(@, FormattedObservation(call, observation))]
    IN  IF f.idx < Len(f.calls)
        THEN SetTop(M1, [f1 EXCEPT !.idx = @ + 1, !.pc = "tool"])
        ELSE NextIteration(SetTop(M1,
                [f1 EXCEPT !.messages = Append(@, Message("user", "observations", f1.observations)),
                           !.pc = "reason"]))

\* execute, up to its first LLM call; start tells the executions of one
\* depth apart: the number of steps sent before this one was called
NewFrame(agentId, maxIter, tools, depth) ==
    [agentId |-> agentId, maxIter |-> maxIter, tools |-> tools, depth |-> depth,
     start |-> 0, iteration |-> 0, pc |-> "reason",
     history |-> <<>>, calls |-> <<>>, idx |-> 0, observations |-> <<>>,
     dispatched |-> <<>>,
     messages |-> << Message("system", "prompt", <<>>), Message("user", "input", <<>>) >>,
     nReason |-> 0, nAction |-> 0,
     ndispatch |-> [c \in ToolCalls |-> 0],
     nfirst |-> [c \in ToolCalls |-> 0]]

StartExecute(M, agentId, maxIter, tools, depth) ==
    NextIteration([M EXCEPT !.stack = Append(@,
        [NewFrame(agentId, maxIter, tools, depth) EXCEPT !.start = M.nsent])])

\* enabled_tools: the available tools the configuration lists
enabled_tools(tools) == { t \in ToolTable : t \in tools }

\* an option that carries the schemas of every available tool
tools_option_all(tools) == [is_some |-> TRUE, cf_tools |-> ToolTable]

\* tools_option: the schemas of the enabled tools, None when there is none
tools_option(tools) ==
    [is_some |-> enabled_tools(tools) # {}, cf_tools |-> enabled_tools(tools)]

\* the tool_calls an action response can carry: none when the call was made
\* without tool schemas
ActionResponses(f) ==
    IF tools_option(f.tools).is_some THEN ToolCallLists \cup { <<>> } ELSE { <<>> }

\* phase 1 of an iteration, on the LLM outcome `text` ("err" for a failure)
Reasoning(M, failed, text) ==
    LET f == [Top(M) EXCEPT !.nReason = @ + 1]
        M1 == SetTop(M, f)
        thought == trim(text)
    IN  IF failed THEN Return(M1, ErrResult)
        ELSE IF contains(to_uppercase(thought), GOAL_COMPLETE)
        THEN Return(M1, OkResult("task_completed", thought))
        ELSE SetTop(M1, [f EXCEPT !.pc = "act"])

\* phase 2 of an iteration, on the LLM outcome: a failure, or tool_calls
Acting(M, failed, tool_calls) ==
    LET f == [Top(M) EXCEPT !.nAction = @ + 1]
        M1 == SetTop(M, f)
    IN  IF failed THEN Return(M1, ErrResult)
        ELSE IF tool_calls = <<>> THEN Return(M1, OkResult("final", <<>>))
        ELSE LET first_tool_call == tool_calls[1]
                 call_signature == ToolCallSignature(first_tool_call[1], first_tool_call[2])
             IN  IF is_loop_detected(f.history, call_signature)
                 THEN Return(M1, OkResult("loop_abort", <<>>))
                 ELSE LET f1 == [f EXCEPT !.history = PushHistory(@, call_signature),
                                          !.calls = tool_calls, !.idx = 1, !.pc = "tool",
                                          !.observations = <<>>,
                                          !.dispatched = <<>>,
                                          !.messages = Append(@, Message("assistant", "response", <<>>))]
                      IN  SetTop(Emit(M1, ActionStep(f, first_tool_call)), f1)

\* execute_utility_tool / execute_tool_async: the results a tool call can have
ToolResults(call) ==
    IF IsDelegateCall(call) THEN { "delegate" } ELSE { "ok", "err" }

\* a depth guard that admits one level more
depth_reached_late(current_depth, max_delegation_depth) ==
    current_depth > max_delegation_depth

\* current_depth >= ctx.max_delegation_depth
depth_reached(current_depth, max_delegation_depth) ==
    current_depth >= max_delegation_depth

\* an executor for the delegated agent that keeps the depth of its parent
delegated_depth_same(current_depth) == current_depth

\* create_delegating_tool_executor(ctx, current_depth + 1)
delegated_depth(current_depth) == current_depth + 1

\* a nested execution tagged with the identifier of the delegating agent
nested_agent_id_of_parent(f, target) == f.agentId

\* Some(delegation.agent_id.clone()): the agent_id of the nested execute
nested_agent_id(f, target) == target

\* the closure of create_delegating_tool_executor, for the current tool
\* call of the top execution; dispatched lists the calls of the response
\* that were handed to the closure
Dispatch(M, toolResult) ==
    LET f0 == Top(M)
        call == tool_call_at(f0.calls, f0.idx)
        f == [f0 EXCEPT !.dispatched = Append(@, call),
                        !.ndispatch[call] = @ + 1,
                        !.nfirst[call] = IF f0.idx = 1 THEN @ + 1 ELSE @]
        M1 == SetTop(M, f)
        target == call[2]
    IN  IF toolResult # "delegate" THEN RecordObservation(M1, toolResult)
        ELSE IF depth_reached(f.depth, MaxDelegationDepth)
        THEN RecordObservation([M1 EXCEPT !.refused = @ \cup {target}], "err")
        ELSE IF target \notin DOMAIN agents THEN RecordObservation(M1, "err")
        ELSE LET agent == agents[target]
                 M2 == SetTop(M1, [f EXCEPT !.pc = "wait"])
                 M3 == [M2 EXCEPT !.senders = @ \cup {NestedSender(f.depth + 1)}]
             IN  StartExecute(M3, nested_agent_id(f, target), agent.maxIterations,
                              agent.tools, delegated_depth(f.depth))

\* the part of the state the executor works on
Machine ==
    [stack |-> stack, chan |-> chan, senders |-> senders, result |-> result,
     nsent |-> nsent, returned |-> <<>>, refused |-> refused]

Install(M) ==
    /\ stack' = M.stack
    /\ chan' = M.chan
    /\ senders' = M.senders
    /\ result' = M.result
    /\ nsent' = M.nsent
    /\ returned' = M.returned
    /\ refused' = M.refused
    /\ hpc' = IF M.result # NoResult THEN "await_streamer" ELSE "exec"

\* -------------------------------------------- ConversationalAgent::execute
\* the tools handed to execute as available_tools
ConvTools == {DelegateTool, "web_search"}

\* the tool calls an LLM response carries in the model: a name and arguments
ConvToolCalls ==
    { ToolCallSignature(DelegateTool, "web-research-agent"),
      ToolCallSignature(DelegateTool, "desktop-automation-agent"),
      ToolCallSignature("web_search", "rust async"),
      ToolCallSignature(UnknownTool, "") }

\* response.tool_calls: None, or Some list of calls
ConvResponses == { <<>> } \cup { << l >> : l \in SeqsUpTo(ConvToolCalls, MaxConvCalls) }

\* the value of Tool::execute: Ok(ToolResult) with its success flag, or Err
ToolOk(success) == [ok |-> TRUE, success |-> success]
ToolErr == [ok |-> FALSE, success |-> FALSE]

\* what the tools of the model return: delegate_to_agent reports success
\* or fails on its arguments; web_search also returns Ok with success
\* false when the search fails or times out
ToolExecuteResults(call) ==
    IF call[1] = DelegateTool THEN { ToolOk(TRUE), ToolErr }
    ELSE { ToolOk(TRUE), ToolOk(FALSE), ToolErr }

\* an ExecutionStep of core: tool_call and tool_observation are options
ConvStep(step_number, step_type, call, observation) ==
    [step_number |-> step_number, step_type |-> step_type,
     tool_call |-> call, tool_observation |-> observation]

\* an observation that reports success whatever the tool returned
observation_always_succeeds(found, res) == << [success |-> TRUE, error |-> FALSE] >>

\* the ToolObservation of the three Observation branches: the tool
\* returned Ok, the tool returned Err, no tool of that name
tool_observation(found, res) ==
    IF found /\ res.ok THEN << [success |-> res.success, error |-> FALSE] >>
    ELSE << [success |-> FALSE, error |-> TRUE] >>

\* execute before its first statement
ConvStart ==
    [pc |-> "start", steps |-> <<>>, step_counter |-> 0, tool_calls |-> <<>>,
     idx |-> 0, results |-> <<>>, returned |-> "none"]

\* steps.push(step); step_counter += 1
ConvPush(c, step_type, call, observation) ==
    [c EXCEPT !.steps = Append(@, ConvStep(c.step_counter, step_type, call,
                                           observation)),
              !.step_counter = @ + 1]

\* the Reflection step, pushed without counting, and Ok(AgentResult)
ConvFinish(c) ==
    [c EXCEPT !.steps = Append(@, ConvStep(c.step_counter, "Reflection", <<>>, <<>>)),
              !.pc = "done", !.returned = "ok"]

\* execute up to the return of the LLM call: the Thinking step, then the
\* call; an Err is returned with `?`, a response without tool_calls ends
\* the execution, and tool calls are announced by the Planning step
ConvChat ==
    /\ conv.pc = "start"
    /\ \E failed \in BOOLEAN : \E response \in (IF failed THEN { <<>> } ELSE ConvResponses) :
        LET c0 == ConvPush(conv, "Thinking", <<>>, <<>>)
            c1 == [c0 EXCEPT !.tool_calls = response]
            c2 == ConvPush(c1, "Planning", <<>>, <<>>)
        IN  conv' = IF failed THEN [c0 EXCEPT !.pc = "done", !.returned = "err"]
                    ELSE IF response = <<>> THEN [c1 EXCEPT !.pc = "done", !.returned = "ok"]
                    ELSE IF response[1] = <<>> THEN ConvFinish(c2)
                    ELSE [c2 EXCEPT !.pc = "tools", !.idx = 1]
    /\ UNCHANGED <<hpc, agents, sock>>
    /\ UNCHANGED chatVars
    /\ UNCHANGED protoVars
    /\ UNCHANGED libraryVars

\* one turn of `for call in tool_calls`: the Action step, the tool looked
\* up by name or id and executed, the Observation step; after the last
\* call the Reflection step and the return
ConvToolCall ==
    /\ conv.pc = "tools"
    /\ LET call == conv.tool_calls[1][conv.idx]
           found == call[1] \in ConvTools
       IN  \E res \in (IF found THEN ToolExecuteResults(call) ELSE { ToolErr }) :
            LET c1 == ConvPush(conv, "Action", << call >>, <<>>)
                c2 == ConvPush(c1, "Observation", <<>>, tool_observation(found, res))
                c3 == [c2 EXCEPT !.results = Append(@, res), !.idx = @ + 1]
            IN  conv' = IF conv.idx = Len(conv.tool_calls[1]) THEN ConvFinish(c3) ELSE c3
    /\ UNCHANGED <<hpc, agents, sock>>
    /\ UNCHANGED chatVars
    /\ UNCHANGED protoVars
    /\ UNCHANGED libraryVars

\* ------------------------------------------- WebSocketRelayClient::run
\* the senders of the outgoing channel that run holds itself
Tx == <<"tx", 0>>
TxClone == <<"tx_clone", 0>>
\* the sender moved into the task of inbound message r, and the clone the
\* task gives to its WebSocketConversationManager
TaskTx(r) == <<"task", r>>
ManagerTx(r) == <<"manager", r>>

\* run after connect_async, the split, the channel and the spawn of the
\* writer task: in the read loop, with tx and tx_clone alive
RelayStart ==
    [pc |-> "read", senders |-> {Tx, TxClone}, chan |-> <<>>, placed |-> <<>>,
     written |-> <<>>, writer |-> "running", tasks |-> <<>>]

\* -------------------------------------------------------- LoopDetector
\* LoopDetector::new(max_history), before its first check_loop; last holds
\* the arguments and the answer of the latest check_loop
NoCheck == [tool_name |-> None, args |-> None, before |-> <<>>, answer |-> FALSE]
DetectorStart == [recent_calls |-> <<>>, nchecks |-> 0, last |-> NoCheck]

\* the calls handed to check_loop in the model
DetectorTools == {"mouse_move", "web_search"}
DetectorArgs == {"x0y0", "x1y1"}

\* the filter of check_loop: its closure binds `args` anew, so that its
\* second test compares the arguments of the entry with themselves
same_call(entry, tool_name, args) == entry[1] = tool_name /\ entry[2] = entry[2]

\* count: the entries of the history that pass the filter
count_recent(recent_calls, tool_name, args) ==
    Cardinality({ i \in DOMAIN recent_calls : same_call(recent_calls[i], tool_name, args) })

\* pop_front at the capacity, then push_back of the current call
push_recent(recent_calls, call_signature) ==
    Append(IF Len(recent_calls) >= DetectorMaxHistory THEN Tail(recent_calls)
           ELSE recent_calls, call_signature)

\* LoopDetector::check_loop: the answer and the history it leaves
check_loop(recent_calls, tool_name, args) ==
    [answer |-> count_recent(recent_calls, tool_name, args) >= 2,
     recent_calls |-> push_recent(recent_calls, << tool_name, args >>)]

\* ------------------------------------ AdvancedInterpolator::interpolate
\* interpolate before its first statement
InterpStart ==
    [pc |-> "start", context |-> <<>>, input |-> <<>>, result |-> <<>>, turns |-> 0,
     outcome |-> None]

\* str::find of one character: its first position, 0 for None
find(s, c) ==
    IF \E i \in DOMAIN s : s[i] = c
    THEN CHOOSE i \in DOMAIN s : s[i] = c /\ \A j \in 1..(i - 1) : s[j] # c
    ELSE 0

\* str::rfind of one character: its last position, 0 for None
rfind(s, c) ==
    IF \E i \in DOMAIN s : s[i] = c
    THEN CHOOSE i \in DOMAIN s : s[i] = c /\ \A j \in (i + 1)..Len(s) : s[j] # c
    ELSE 0

\* the first position at which pat occurs in s, 0 when it does not
find_str(s, pat) ==
    LET at(i) == i + Len(pat) - 1 <= Len(s) /\ SubSeq(s, i, i + Len(pat) - 1) = pat
    IN  IF \E i \in DOMAIN s : at(i)
        THEN CHOOSE i \in DOMAIN s : at(i) /\ \A j \in 1..(i - 1) : ~at(j)
        ELSE 0

RECURSIVE replace(_, _, _)
\* str::replace: every occurrence of pat, from the left, not overlapping
replace(s, pat, by) ==
    LET i == find_str(s, pat)
    IN  IF i = 0 THEN s
        ELSE SubSeq(s, 1, i - 1) \o by \o replace(SubSeq(s, i + Len(pat), Len(s)), pat, by)

\* String::replace_range(start..=end, by)
replace_range(s, start, end, by) ==
    SubSeq(s, 1, start - 1) \o by \o SubSeq(s, end + 1, Len(s))

\* serde_json values: strings and null
StringValue(s) == [kind |-> "string", s |-> s]
NullValue == [kind |-> "null", s |-> <<>>]

\* Value::to_string: a string is written in double quotes
value_to_string(value) ==
    IF value.kind = "string" THEN << "\"" >> \o value.s \o << "\"" >>
    ELSE << "n", "u", "l", "l" >>

\* the words of the model, as strings of characters
Word_name == << "n", "a", "m", "e" >>
Word_tools == << "t", "o", "o", "l", "s" >>
Word_tool == << "t", "o", "o", "l" >>
Word_test == << "t", "e", "s", "t" >>

\* the registered functions of the model: tools ignores its arguments,
\* tool fails without an argument
InterpFunctions == { Word_tools, Word_tool }

\* func(&args): the value, or Err
call_function(func_name, args) ==
    IF func_name = Word_tools THEN [kind |-> "some", value |-> StringValue(<< "m", "v" >>)]
    ELSE IF args = <<>> THEN [kind |-> "err", value |-> NullValue]
    ELSE [kind |-> "some", value |-> StringValue(<< "T", ":" >> \o args[1].s)]

\* parse_function_args for an argument string without quotes and commas:
\* no argument when it is blank, else one string argument
parse_function_args(args_str) ==
    IF trim(args_str) = <<>> THEN <<>> ELSE << StringValue(trim(args_str)) >>

\* evaluate_function_call: Ok(None) unless the text is name(args) with the
\* name of a registered function
evaluate_function_call(call) ==
    LET open_paren == find(call, "(")
        close_paren == rfind(call, ")")
        func_name == trim(SubSeq(call, 1, open_paren - 1))
        args_str == SubSeq(call, open_paren + 1, close_paren - 1)
    IN  IF open_paren = 0 \/ close_paren = 0 THEN [kind |-> "none", value |-> NullValue]
        ELSE IF func_name \in InterpFunctions
        THEN call_function(func_name, parse_function_args(args_str))
        ELSE [kind |-> "none", value |-> NullValue]

RECURSIVE replace_variables(_, _)
\* the loop over the context: {key} replaced by the written value, key
\* after key in the order the map yields them
replace_variables(s, context) ==
    IF context = <<>> THEN s
    ELSE replace_variables(
            replace(s, << "{" >> \o context[1][1] \o << "}" >>, value_to_string(context[1][2])),
            Tail(context))

\* the contexts of the model
InterpContexts ==
    { <<>>,
      << << Word_name, StringValue(Word_test) >> >>,
      << << Word_name, StringValue(<< "{", "x", "}" >>) >> >> }

\* the input strings of the model
InterpInputs ==
    { << "H", "i", Blank, "{" >> \o Word_name \o << "}", "!" >>,
      << "{" >> \o Word_tools \o << "(", ")", "}" >>,
      << "{" >> \o Word_tool \o << "(", "a", ")", "}", "{" >> \o Word_tools \o << "(", ")", "}" >>,
      << "{" >> \o Word_tool \o << "(", ")", "}" >>,
      << "{", "x", "}" >>,
      << "{", "x", "(", ")", "}" >>,
      << "a", "{" >>,
      << "}", "a", "{" >>,
      << "{" >> \o Word_tools \o << "(", ")", "}", "{" >> \o Word_name \o << "}" >>,
      << "a", "b" >> }

\* ------------------------------------------------------ session handler
\* the chat_request frames of the model
ChatRequests ==
    { [agent |-> "invalid", tools |-> {}, maxIterations |-> 0, agentId |-> None] }
    \cup [agent : {"config"}, tools : { {UnknownTool}, {"mouse_move", UnknownTool} },
          maxIterations : {1}, agentId : {None}]
    \cup [agent : {"config"}, tools : { {}, {"mouse_move", DelegateTool} },
          maxIterations : 0..MaxIterations, agentId : {None, "orchestrator"}]

\* a handler that skips the validation of the tool identifiers
invalid_tools_unchecked(req) == {}

\* invalid_tools of the chat_request branch
invalid_tools(req) == { t \in req.tools : t \notin ToolTable }

ChatResponse(isError) == [type |-> "chat_response", seq |-> 0, agentId |-> None, error |-> isError]

StepFrame(step) ==
    [type |-> "execution_step", seq |-> step.seq, agentId |-> step.agentId, error |-> FALSE,
     stepNumber |-> step.stepNumber, action |-> step.action,
     observation |-> step.observation, exec |-> step.exec, start |-> step.start]

Init ==
    /\ hpc = "recv"
    /\ agents \in AgentStores
    /\ stack = <<>>
    /\ chan = <<>>
    /\ senders = {}
    /\ streamer = None
    /\ frames = <<>>
    /\ result = NoResult
    /\ nsent = 0
    /\ ndeleg = 0
    /\ ncalls = 0
    /\ lastEvent = NoEvent
    /\ returned = <<>>
    /\ refused = {}
    /\ conv = ConvStart
    /\ relay = RelayStart
    /\ detector = DetectorStart
    /\ interp = InterpStart
    /\ sock = "open"
    /\ prompts = <<>>
    /\ adisk = to_string_pretty(agents)
    /\ pdisk = NoFile
    /\ request = NoRequest
    /\ reply = <<>>
    /\ nsavefail = 0

\* a chat_request frame arrives: validation, then the executor up to its
\* first LLM call
RecvChatRequest ==
    /\ hpc = "recv"
    /\ \E req \in ChatRequests :
        /\ ndeleg' = 0
        /\ ncalls' = 0
        /\ lastEvent' = [NoEvent EXCEPT !.op = "chat_request", !.tools = req.tools,
                                        !.outcome = IF req.agent = "invalid" THEN "invalid_agent"
                                                    ELSE IF invalid_tools(req) # {} THEN "invalid_tools"
                                                    ELSE "accepted"]
        /\ UNCHANGED <<agents, sock>>
        /\ UNCHANGED protoVars
        /\ UNCHANGED convVars
        /\ UNCHANGED libraryVars
        /\ IF req.agent = "invalid" \/ invalid_tools(req) # {}
           THEN /\ frames' = << ChatResponse(TRUE) >>
                /\ hpc' = "recv"
                /\ stack' = <<>>
                /\ chan' = <<>>
                /\ senders' = {}
                /\ streamer' = None
                /\ result' = NoResult
                /\ nsent' = 0
                /\ returned' = <<>>
                /\ refused' = {}
           ELSE /\ frames' = <<>>
                /\ streamer' = "running"
                /\ Install(StartExecute(
                        [stack |-> <<>>, chan |-> <<>>, senders |-> {StepTx, ExecCtxSender},
                         result |-> NoResult, nsent |-> 0, returned |-> <<>>,
                         refused |-> {}],
                        req.agentId, req.maxIterations, req.tools, 0))

\* phase 1: the reasoning call of the LLM returns
ReasoningTurn ==
    /\ hpc = "exec"
    /\ stack # <<>>
    /\ Top(Machine).pc = "reason"
    /\ \E failed \in BOOLEAN : \E text \in (IF failed THEN { <<>> } ELSE ReasoningTexts) :
        /\ lastEvent' = Event("reason", Top(Machine), IF failed THEN "err" ELSE "ok", text)
        /\ Install(Reasoning(Machine, failed, text))
    /\ UNCHANGED <<agents, streamer, frames, ndeleg, ncalls, sock>>
    /\ UNCHANGED protoVars
    /\ UNCHANGED convVars
    /\ UNCHANGED libraryVars

\* phase 2: the action call of the LLM returns
ActionTurn ==
    /\ hpc = "exec"
    /\ stack # <<>>
    /\ Top(Machine).pc = "act"
    /\ \E failed \in BOOLEAN :
       \E tool_calls \in (IF failed THEN { <<>> } ELSE ActionResponses(Top(Machine))) :
        /\ ndeleg + NumDelegations(tool_calls) <= MaxDelegations
        /\ ndeleg' = ndeleg + NumDelegations(tool_calls)
        /\ ncalls + Len(tool_calls) <= MaxToolCalls
        /\ ncalls' = ncalls + Len(tool_calls)
        /\ lastEvent' = Event("act", Top(Machine), IF failed THEN "err" ELSE "ok", <<>>)
        /\ Install(Acting(Machine, failed, tool_calls))
    /\ UNCHANGED <<agents, streamer, frames, sock>>
    /\ UNCHANGED protoVars
    /\ UNCHANGED convVars
    /\ UNCHANGED libraryVars

\* the tool executor returns for the current tool call
DispatchTool ==
    /\ hpc = "exec"
    /\ stack # <<>>
    /\ Top(Machine).pc = "tool"
    /\ LET f == Top(Machine)
       IN  \E toolResult \in ToolResults(tool_call_at(f.calls, f.idx)) :
            /\ lastEvent' = Event("tool", f, toolResult, <<>>)
            /\ Install(Dispatch(Machine, toolResult))
    /\ UNCHANGED <<agents, streamer, frames, ndeleg, ncalls, sock>>
    /\ UNCHANGED protoVars
    /\ UNCHANGED convVars
    /\ UNCHANGED libraryVars

\* a receiver that takes the newest step first
recv_newest(queue) ==
    [step |-> queue[Len(queue)], rest |-> SubSeq(queue, 1, Len(queue) - 1)]

\* step_rx.recv() on a non-empty channel: the oldest step, and what stays
recv(queue) == [step |-> Head(queue), rest |-> Tail(queue)]

\* the step_streamer task: one turn of `while let Some(step) = recv().await`:
\* the step is framed and written to the socket, and a failed write is
\* logged; when recv yields None the task ends, the handler's await on it
\* completes and the handler answers the chat
StepStreamer ==
    /\ streamer = "running"
    /\ IF chan # <<>>
       THEN /\ frames' = IF sock = "open"
                         THEN Append(frames, StepFrame(recv(chan).step))
                         ELSE frames
            /\ chan' = recv(chan).rest
            /\ lastEvent' = [NoEvent EXCEPT !.op = "stream"]
            /\ UNCHANGED <<hpc, streamer, senders, result>>
       ELSE /\ senders = {}
            /\ hpc = "await_streamer"
            /\ streamer' = "done"
            /\ frames' = IF sock = "open"
                         THEN Append(frames, ChatResponse(result.kind = "error"))
                         ELSE frames
            /\ hpc' = IF sock = "open" THEN "recv" ELSE "dial"
            /\ lastEvent' = [NoEvent EXCEPT !.op = "chat_response"]
            /\ UNCHANGED <<chan, senders, result>>
    /\ returned' = <<>>
    /\ UNCHANGED <<agents, stack, nsent, ndeleg, ncalls, sock, refused>>
    /\ UNCHANGED protoVars
    /\ UNCHANGED convVars
    /\ UNCHANGED libraryVars

Next ==
    \/ RecvChatRequest
    \/ ReasoningTurn
    \/ ActionTurn
    \/ DispatchTool
    \/ StepStreamer

Spec == Init /\ [][Next]_vars

\* the relay socket fails while a chat is being handled: from then on every
\* write to it fails, and the frames written to it are gone with it
SocketBreaks ==
    /\ hpc \in {"exec", "await_streamer"}
    /\ sock = "open"
    /\ sock' = "broken"
    /\ frames' = <<>>
    /\ UNCHANGED <<hpc, agents, stack, chan, senders, streamer, result,
                   nsent, ndeleg, ncalls, lastEvent, returned, refused>>
    /\ UNCHANGED protoVars
    /\ UNCHANGED convVars
    /\ UNCHANGED libraryVars

SockNext == Next \/ SocketBreaks

\* the chat path on a socket that can fail
SockSpec == Init /\ [][SockNext]_vars

\* ------------------------------------------------------------ the stores
\* Option<T> in the protocol part: the empty sequence, or one element
Some(x) == << x >>

\* the agents of create_default_agents, all locked
create_default_agents ==
    LET rec(id, tools) == [id |-> id, tools |-> tools, maxIterations |-> 5, isLocked |-> TRUE]
    IN  [id \in {"desktop-automation-agent", "web-research-agent", "general-assistant"} |->
            IF id = "desktop-automation-agent" THEN rec(id, get_all_automation_tools)
            ELSE IF id = "web-research-agent" THEN rec(id, get_all_web_tools)
            ELSE rec(id, get_all_automation_tools \cup get_all_web_tools)]

\* get_all_default_agents converted by the reset_agents handler: every tool
\* reference of the preset, whether enabled or not, and is_locked = true
PresetAgents ==
    LET rec(id, tools, n) == [id |-> id, tools |-> tools, maxIterations |-> n, isLocked |-> TRUE]
    IN  << rec("orchestrator-agent", {DelegateTool}, 10),
           rec("conversational-agent", {"take_screenshot"}, 3),
           rec("desktop-automation-agent",
               {"mouse_move", "mouse_click", "keyboard_input", "get_mouse_position"}, 3),
           rec("web-research-agent", {"web_search", "fetch_url"}, 8),
           rec("code-assistant-agent",
               {"keyboard_input", "take_screenshot", "mouse_move", "mouse_click"}, 4),
           rec("test-debug-agent", get_all_automation_tools, 3) >>

Reverse(seq) == [i \in DOMAIN seq |-> seq[Len(seq) + 1 - i]]

\* the orders in which into_values() of the preset map yields the agents
PresetOrders == { PresetAgents, Reverse(PresetAgents) }

\* a map with the entry k -> v inserted (HashMap::insert)
Insert(map, k, v) == [x \in DOMAIN map \cup {k} |-> IF x = k THEN v ELSE map[x]]

\* a map without the entry of k (HashMap::remove)
Remove(map, k) == [x \in DOMAIN map \ {k} |-> map[x]]

\* get_all: the records of a map
get_all(map) == { map[k] : k \in DOMAIN map }

\* the result of a store operation: the map, the file, and Ok or Err
StoreResult(map, disk, res) == [map |-> map, disk |-> disk, res |-> res]

\* save: the whole map is written to the file; on a failed write the
\* file keeps its content and the in-memory map its new one
save(map, disk, saveOk) ==
    IF saveOk THEN StoreResult(map, to_string_pretty(map), "ok")
    ELSE StoreResult(map, disk, "save_failed")

\* a validation that accepts every tool identifier
validate_tools_any(agent, available_tools) == TRUE

\* AgentStorage::validate_tools
validate_tools(agent, available_tools) == \A t \in agent.tools : t \in available_tools

\* a create that saves the map without the new record
AgentStorage_create_forgets(map, disk, agent, saveOk) ==
    IF agent.id \in DOMAIN map THEN StoreResult(map, disk, "exists")
    ELSE save(map, disk, saveOk)

\* AgentStorage::create
AgentStorage_create(map, disk, agent, saveOk) ==
    IF agent.id \in DOMAIN map THEN StoreResult(map, disk, "exists")
    ELSE save(Insert(map, agent.id, agent), disk, saveOk)

\* a lock test that lets every record through
is_locked_ignored(existing) == FALSE

\* existing.is_locked of update and delete, in both stores
is_locked(existing) == existing.isLocked

\* an update that unlocks a locked record instead of refusing
AgentStorage_update_unlocks(map, disk, id, agent, saveOk) ==
    IF id \notin DOMAIN map THEN StoreResult(map, disk, "not_found")
    ELSE IF is_locked(map[id])
         THEN save(Insert(map, id, [map[id] EXCEPT !.isLocked = FALSE]), disk, saveOk)
    ELSE save(Insert(map, id, agent), disk, saveOk)

\* AgentStorage::update
AgentStorage_update(map, disk, id, agent, saveOk) ==
    IF id \notin DOMAIN map THEN StoreResult(map, disk, "not_found")
    ELSE IF is_locked(map[id]) THEN StoreResult(map, disk, "locked")
    ELSE save(Insert(map, id, agent), disk, saveOk)

\* AgentStorage::delete
AgentStorage_delete(map, disk, id, saveOk) ==
    IF id \notin DOMAIN map THEN StoreResult(map, disk, "not_found")
    ELSE IF is_locked(map[id]) THEN StoreResult(map, disk, "locked")
    ELSE save(Remove(map, id), disk, saveOk)

\* a clear that keeps the records that are not locked
AgentStorage_clear_keeps_unlocked(map, disk, saveOk) ==
    save([k \in { x \in DOMAIN map : ~map[x].isLocked } |-> map[k]], disk, saveOk)

\* AgentStorage::clear
AgentStorage_clear(map, disk, saveOk) == save(<<>>, disk, saveOk)

\* PromptStorage::create: the record is stored as user-created and unlocked
PromptStorage_create(map, disk, prompt, saveOk) ==
    IF prompt.id \in DOMAIN map THEN StoreResult(map, disk, "exists")
    ELSE save(Insert(map, prompt.id,
                     [prompt EXCEPT !.category = "user-created", !.isLocked = FALSE]),
              disk, saveOk)

\* PromptStorage::update
PromptStorage_update(map, disk, id, updates, saveOk) ==
    IF id \notin DOMAIN map THEN StoreResult(map, disk, "not_found")
    ELSE IF is_locked(map[id]) THEN StoreResult(map, disk, "locked")
    ELSE save(Insert(map, id,
                     [updates EXCEPT !.category = "user-created", !.isLocked = FALSE]),
              disk, saveOk)

\* PromptStorage::delete
PromptStorage_delete(map, disk, id, saveOk) ==
    IF id \notin DOMAIN map THEN StoreResult(map, disk, "not_found")
    ELSE IF is_locked(map[id]) THEN StoreResult(map, disk, "locked")
    ELSE save(Remove(map, id), disk, saveOk)

\* PromptStorage::clear_user_created
clear_user_created(map, disk, saveOk) ==
    save([k \in { x \in DOMAIN map : map[x].isLocked } |-> map[k]], disk, saveOk)

\* ------------------------------------------------- the protocol dispatch
\* the commandId members of the inbound frames of the model
CommandIds == { NoCommandId, <<"string", "c1">>, <<"number", "7">> }

\* the commandId members of the inbound frames with a recognized type,
\* whose handlers never read the member
TypedCommandIds == { NoCommandId, <<"string", "c1">> }

\* value.get("commandId").and_then(|v| v.as_str())
as_str(v) == IF v[1] = "string" THEN Some(v) ELSE <<>>

\* the identifiers of the agents and prompts the requests of the model name
UserAgent == "a1"
UserPrompt == "p1"
BuiltinPrompt == "react-basic"

\* the Agent objects of the create_agent and update_agent frames
AgentPayloads ==
    { [id |-> UserAgent, tools |-> {"mouse_move"}, maxIterations |-> 1, isLocked |-> FALSE],
      [id |-> UserAgent, tools |-> {"mouse_move"}, maxIterations |-> 2, isLocked |-> TRUE],
      [id |-> "general-assistant", tools |-> {"mouse_move"}, maxIterations |-> 1,
       isLocked |-> FALSE],
      [id |-> UserAgent, tools |-> {"mouse_move", UnknownTool}, maxIterations |-> 1,
       isLocked |-> FALSE] }

\* the Prompt objects of the create_prompt and update_prompt frames
PromptPayloads ==
    { [id |-> UserPrompt, content |-> "v1", category |-> "built-in", isLocked |-> TRUE],
      [id |-> UserPrompt, content |-> "v2", category |-> "built-in", isLocked |-> TRUE],
      [id |-> BuiltinPrompt, content |-> "v2", category |-> "built-in", isLocked |-> TRUE] }

\* the outcomes of the next write of a store file
SaveOutcomes == IF nsavefail < MaxSaveFailures THEN BOOLEAN ELSE {TRUE}

\* the failed writes counted
CountSave(res) == nsavefail' = IF res = "save_failed" THEN nsavefail + 1 ELSE nsavefail

\* prompts.json as load() finds it at the first start: no file, or a file
\* with one built-in prompt
PromptFiles ==
    { NoFile,
      to_string_pretty([id \in {BuiltinPrompt} |->
          [id |-> id, content |-> "v1", category |-> "built-in", isLocked |-> TRUE]]) }

\* an outbound frame: body holds the records it carries
Frame(type, commandId, id, body) ==
    [type |-> type, commandId |-> commandId, id |-> id, body |-> body]

\* the handshake frame
Handshake(tools, agentRecords) ==
    [type |-> "handshake", commandId |-> NoCommandId, tools |-> tools, body |-> agentRecords]

\* connect_and_run returns an error: its locals are dropped, and the kind
\* of the frame that ended the session is all that stays
Failed(req) == Request(req.type, NoCommandId, None, <<>>)

\* a send after which connect_and_run returns even when the frame was
\* written
Answer_returns(req, frame, sendOk) ==
    /\ request' = req
    /\ reply' = IF sendOk THEN << frame >> ELSE <<>>
    /\ hpc' = "dial"
    /\ sock' = IF sendOk THEN "dropped" ELSE "broken"

\* write.lock().await.send(frame).await?: the frame is written and the
\* loop body ends, or the send fails and connect_and_run returns the error
Answer(req, frame, sendOk) ==
    IF sendOk
    THEN /\ request' = req
         /\ reply' = << frame >>
         /\ hpc' = "handled"
         /\ sock' = "open"
    ELSE /\ request' = Failed(req)
         /\ reply' = <<>>
         /\ hpc' = "dial"
         /\ sock' = "broken"

\* connect_and_run up to the receive loop: connect_async, then the handshake
Connect ==
    /\ hpc = "dial"
    /\ \E connected \in BOOLEAN, sendOk \in BOOLEAN :
        /\ request' = Request("connect", NoCommandId, None, <<>>)
        /\ IF connected /\ sendOk
           THEN /\ reply' = << Handshake(ToolTable, get_all(agents)) >>
                /\ hpc' = "handled"
                /\ sock' = "open"
           ELSE /\ reply' = <<>>
                /\ hpc' = "dial"
                /\ sock' = "broken"
    /\ UNCHANGED <<agents, prompts, adisk, pdisk, nsavefail>>
    /\ UNCHANGED chatVars
    /\ UNCHANGED convVars
    /\ UNCHANGED libraryVars

\* read.next() yields Close, an error or the end of the stream
SocketClosed ==
    /\ hpc = "recv"
    /\ request' = Request("close", NoCommandId, None, <<>>)
    /\ reply' = <<>>
    /\ hpc' = "dial"
    /\ sock' = "broken"
    /\ UNCHANGED <<agents, prompts, adisk, pdisk, nsavefail>>
    /\ UNCHANGED chatVars
    /\ UNCHANGED convVars
    /\ UNCHANGED libraryVars

\* handshake_ack and pong text frames, and the socket-level frames that
\* are neither Text, Ping nor Close: nothing is sent
IgnoredFrame ==
    /\ hpc = "recv"
    /\ \E type \in {"handshake_ack", "pong"}, cid \in TypedCommandIds :
        /\ request' = Request(type, cid, None, <<>>)
        /\ reply' = <<>>
        /\ hpc' = "handled"
    /\ UNCHANGED <<sock, agents, prompts, adisk, pdisk, nsavefail>>
    /\ UNCHANGED chatVars
    /\ UNCHANGED convVars
    /\ UNCHANGED libraryVars

\* the end of the loop body: the frame and its answer go out of scope and
\* the handler waits in read.next() again
NextFrame ==
    /\ hpc = "handled"
    /\ hpc' = "recv"
    /\ request' = NoRequest
    /\ reply' = <<>>
    /\ UNCHANGED <<sock, agents, prompts, adisk, pdisk, nsavefail>>
    /\ UNCHANGED chatVars
    /\ UNCHANGED convVars
    /\ UNCHANGED libraryVars

\* Message::Ping: answered with Pong
PingFrame ==
    /\ hpc = "recv"
    /\ \E sendOk \in BOOLEAN :
        Answer(Request("ping", NoCommandId, None, <<>>),
               Frame("pong", NoCommandId, None, {}), sendOk)
    /\ UNCHANGED <<agents, prompts, adisk, pdisk, nsavefail>>
    /\ UNCHANGED chatVars
    /\ UNCHANGED convVars
    /\ UNCHANGED libraryVars

\* a handler that reads the stores and answers with one frame
ReadOnly(req, frame) ==
    /\ \E sendOk \in BOOLEAN : Answer(req, frame, sendOk)
    /\ UNCHANGED <<agents, prompts, adisk, pdisk, nsavefail>>
    /\ UNCHANGED chatVars
    /\ UNCHANGED convVars
    /\ UNCHANGED libraryVars

\* "get_agents"
GetAgents ==
    /\ hpc = "recv"
    /\ \E cid \in TypedCommandIds :
            ReadOnly(Request("get_agents", cid, None, <<>>),
                     Frame("agents_list", NoCommandId, None, get_all(agents)))

\* "get_agent"
GetAgent ==
    /\ hpc = "recv"
    /\ \E cid \in TypedCommandIds, id \in {None, UserAgent, "general-assistant"} :
            ReadOnly(Request("get_agent", cid, id, <<>>),
                     IF id = None \/ id \notin DOMAIN agents
                     THEN Frame("agent_error", NoCommandId, None, {})
                     ELSE Frame("agent_data", NoCommandId, None, {agents[id]}))

\* "get_prompts"
GetPrompts ==
    /\ hpc = "recv"
    /\ \E cid \in TypedCommandIds :
            ReadOnly(Request("get_prompts", cid, None, <<>>),
                     Frame("prompts", NoCommandId, None, get_all(prompts)))

\* "get_presets"
GetPresets ==
    /\ hpc = "recv"
    /\ \E cid \in TypedCommandIds :
            ReadOnly(Request("get_presets", cid, None, <<>>),
                     Frame("presets", NoCommandId, None,
                           { PresetAgents[i] : i \in DOMAIN PresetAgents }))

\* "get_tools"
GetTools ==
    /\ hpc = "recv"
    /\ \E cid \in TypedCommandIds :
            ReadOnly(Request("get_tools", cid, None, <<>>),
                     Frame("tools", NoCommandId, None, {}))

\* what the agent handlers answer for the result of a store operation
AgentReply(okType, res, id, agent) ==
    IF res = "ok" THEN Frame(okType, NoCommandId, id, agent)
    ELSE Frame("agent_error", NoCommandId, None, {})

\* a handler that applies one operation of the agent store: r is the
\* result of the operation
AgentStoreStep(req, r, frame) ==
    /\ agents' = r.map
    /\ adisk' = r.disk
    /\ CountSave(r.res)
    /\ \E sendOk \in BOOLEAN : Answer(req, frame, sendOk)
    /\ UNCHANGED <<prompts, pdisk>>
    /\ UNCHANGED chatVars
    /\ UNCHANGED convVars
    /\ UNCHANGED libraryVars

\* "create_agent"
CreateAgent ==
    /\ hpc = "recv"
    /\ \E cid \in TypedCommandIds, body \in { <<>> } \cup { Some(a) : a \in AgentPayloads },
          saveOk \in SaveOutcomes :
           LET req == Request("create_agent", cid, None, body)
               unchanged == StoreResult(agents, adisk, "invalid")
               r == IF body = <<>> THEN unchanged
                    ELSE IF ~validate_tools(body[1], ToolTable) THEN unchanged
                    ELSE AgentStorage_create(agents, adisk, body[1], saveOk)
           IN  AgentStoreStep(req, r,
                   AgentReply("agent_created", r.res, None,
                              IF body = <<>> THEN {} ELSE {body[1]}))

\* what the update_agent arm does to the store: the id and the agent are
\* taken from the frame, the tools are validated, then the store updates
update_agent(map, disk, id, body, saveOk) ==
    IF id = None \/ body = <<>> THEN StoreResult(map, disk, "invalid")
    ELSE IF ~validate_tools(body[1], ToolTable) THEN StoreResult(map, disk, "invalid")
    ELSE AgentStorage_update(map, disk, id, body[1], saveOk)

\* "update_agent"
UpdateAgent ==
    /\ hpc = "recv"
    /\ \E cid \in TypedCommandIds, id \in {None, UserAgent, "general-assistant"},
          body \in { <<>> } \cup { Some(a) : a \in AgentPayloads },
          saveOk \in SaveOutcomes :
           LET req == Request("update_agent", cid, id, body)
               r == update_agent(agents, adisk, id, body, saveOk)
           IN  AgentStoreStep(req, r,
                   AgentReply("agent_updated", r.res, None,
                              IF body = <<>> THEN {} ELSE {body[1]}))

\* "delete_agent"
DeleteAgent ==
    /\ hpc = "recv"
    /\ \E cid \in TypedCommandIds, id \in {None, UserAgent, "general-assistant"},
          saveOk \in SaveOutcomes :
           LET req == Request("delete_agent", cid, id, <<>>)
               r == IF id = None THEN StoreResult(agents, adisk, "invalid")
                    ELSE AgentStorage_delete(agents, adisk, id, saveOk)
           IN  AgentStoreStep(req, r, AgentReply("agent_deleted", r.res, id, {}))

\* the loop of reset_agents from its i-th agent on: create(..)? for every
\* preset agent in turn, left at the first Err. The saves of the request
\* are numbered from 0, the clear, and the first nsaved of them succeed
RECURSIVE reset_creates(_, _, _, _)
reset_creates(r, order, i, nsaved) ==
    IF i > Len(order) \/ r.res # "ok" THEN r
    ELSE reset_creates(AgentStorage_create(r.map, r.disk, order[i], i < nsaved),
                       order, i + 1, nsaved)

\* "reset_agents": clear()?, then create(..)? for every preset agent; the
\* first Err ends the session. nsaved is the number of saves that succeed
ResetAgents ==
    /\ hpc = "recv"
    /\ \E cid \in TypedCommandIds, order \in PresetOrders,
          nsaved \in 0..(Len(PresetAgents) + 1), sendOk \in BOOLEAN :
        LET req == Request("reset_agents", cid, None, <<>>)
            n == Len(PresetAgents)
            r == reset_creates(AgentStorage_clear(agents, adisk, 0 < nsaved),
                               order, 1, nsaved)
        IN  /\ (nsaved <= n) => (FALSE \in SaveOutcomes)
            /\ CountSave(r.res)
            /\ agents' = r.map
            /\ adisk' = r.disk
            /\ IF r.res = "ok"
                THEN Answer(req, Frame("agents_reset", NoCommandId, None,
                                       { PresetAgents[i] : i \in DOMAIN PresetAgents }),
                            sendOk)
                ELSE /\ request' = Failed(req)
                     /\ reply' = <<>>
                     /\ hpc' = "dial"
                     /\ sock' = "dropped"
    /\ UNCHANGED <<prompts, pdisk>>
    /\ UNCHANGED chatVars
    /\ UNCHANGED convVars
    /\ UNCHANGED libraryVars

\* what the prompt handlers answer for the result of a store operation
PromptReply(okType, res, id, prompt) ==
    IF res = "ok" THEN Frame(okType, NoCommandId, id, prompt)
    ELSE Frame("prompt_error", NoCommandId, None, {})

\* a handler that applies one operation of the prompt store
PromptStoreStep(req, r, frame) ==
    /\ prompts' = r.map
    /\ pdisk' = r.disk
    /\ CountSave(r.res)
    /\ \E sendOk \in BOOLEAN : Answer(req, frame, sendOk)
    /\ UNCHANGED <<agents, adisk>>
    /\ UNCHANGED chatVars
    /\ UNCHANGED convVars
    /\ UNCHANGED libraryVars

\* the prompt requests: the Prompt is deserialized from the frame itself,
\* so that its id is the id member of the frame
PromptBodies(id) == { <<>> } \cup { Some(q) : q \in { x \in PromptPayloads : x.id = id } }

\* "create_prompt"
CreatePrompt ==
    /\ hpc = "recv"
    /\ \E cid \in TypedCommandIds, id \in {None, UserPrompt, BuiltinPrompt}, saveOk \in SaveOutcomes :
         \E body \in PromptBodies(id) :
           LET req == Request("create_prompt", cid, id, body)
               r == IF body = <<>> THEN StoreResult(prompts, pdisk, "invalid")
                    ELSE PromptStorage_create(prompts, pdisk, body[1], saveOk)
           IN  PromptStoreStep(req, r,
                   PromptReply("prompt_created", r.res, None,
                               IF r.res = "ok" THEN {r.map[id]} ELSE {}))

\* "update_prompt"
UpdatePrompt ==
    /\ hpc = "recv"
    /\ \E cid \in TypedCommandIds, id \in {None, UserPrompt, BuiltinPrompt}, saveOk \in SaveOutcomes :
         \E body \in PromptBodies(id) :
           LET req == Request("update_prompt", cid, id, body)
               r == IF id = None \/ body = <<>> THEN StoreResult(prompts, pdisk, "invalid")
                    ELSE PromptStorage_update(prompts, pdisk, id, body[1], saveOk)
           IN  PromptStoreStep(req, r,
                   PromptReply("prompt_updated", r.res, None,
                               IF r.res = "ok" THEN {r.map[id]} ELSE {}))

\* "delete_prompt"
DeletePrompt ==
    /\ hpc = "recv"
    /\ \E cid \in TypedCommandIds, id \in {None, UserPrompt, BuiltinPrompt}, saveOk \in SaveOutcomes :
           LET req == Request("delete_prompt", cid, id, <<>>)
               r == IF id = None THEN StoreResult(prompts, pdisk, "invalid")
                    ELSE PromptStorage_delete(prompts, pdisk, id, saveOk)
           IN  PromptStoreStep(req, r, PromptReply("prompt_deleted", r.res, id, {}))

\* get_all_default_prompts: the prompt templates of prompts::get_all_prompts,
\* built-in and locked
get_all_default_prompts ==
    { [id |-> id, content |-> "v1", category |-> "built-in", isLocked |-> TRUE] :
        id \in {"cot-standard", BuiltinPrompt, "enhanced-reasoning"} }

\* "reset_prompts": clear_user_created()?, then the reply with the default
\* prompts
ResetPrompts ==
    /\ hpc = "recv"
    /\ \E cid \in TypedCommandIds, saveOk \in SaveOutcomes, sendOk \in BOOLEAN :
        LET req == Request("reset_prompts", cid, None, <<>>)
            r == clear_user_created(prompts, pdisk, saveOk)
        IN  /\ prompts' = r.map
            /\ pdisk' = r.disk
            /\ CountSave(r.res)
            /\ IF r.res = "ok"
               THEN Answer(req, Frame("prompts_reset", NoCommandId, None,
                                      get_all_default_prompts), sendOk)
               ELSE /\ request' = Failed(req)
                    /\ reply' = <<>>
                    /\ hpc' = "dial"
                    /\ sock' = "dropped"
    /\ UNCHANGED <<agents, adisk>>
    /\ UNCHANGED chatVars
    /\ UNCHANGED convVars
    /\ UNCHANGED libraryVars

\* the commandId restored on the response of a raw command
RestoreCommandId(command_id) == IF command_id = <<>> THEN NoCommandId ELSE command_id[1]

\* a frame without a recognized type: the commandId is taken out, the rest
\* is parsed as a Command and handled, and the commandId is put back on
\* the response
RawCommand ==
    /\ hpc = "recv"
    /\ \E type \in {"mouse_move", "bogus", None}, cid \in CommandIds,
          outcome \in {"success", "error"}, sendOk \in BOOLEAN :
        LET req == Request(type, cid, None, <<>>)
            command_id == as_str(cid)
            parsed == type = "mouse_move"
            response == IF parsed THEN outcome ELSE "error"
        IN  Answer(req, Frame(response, RestoreCommandId(command_id), None, {}), sendOk)
    /\ UNCHANGED <<agents, prompts, adisk, pdisk, nsavefail>>
    /\ UNCHANGED chatVars
    /\ UNCHANGED convVars
    /\ UNCHANGED libraryVars

\* a text frame that is not JSON
InvalidJson ==
    /\ hpc = "recv"
    /\ \E sendOk \in BOOLEAN :
        Answer(Request("invalid_json", NoCommandId, None, <<>>),
               Frame("error", NoCommandId, None, {}), sendOk)
    /\ UNCHANGED <<agents, prompts, adisk, pdisk, nsavefail>>
    /\ UNCHANGED chatVars
    /\ UNCHANGED convVars
    /\ UNCHANGED libraryVars

\* the process is gone: its stores, its socket and the frame it was
\* handling are lost, the store files stay
Down ==
    /\ hpc' = "down"
    /\ sock' = "broken"
    /\ agents' = <<>>
    /\ prompts' = <<>>
    /\ request' = NoRequest
    /\ reply' = <<>>

\* the process is killed while it writes no file
Crash ==
    /\ hpc \in {"dial", "recv", "handled"}
    /\ Down
    /\ UNCHANGED <<adisk, pdisk, nsavefail>>
    /\ UNCHANGED chatVars
    /\ UNCHANGED convVars
    /\ UNCHANGED libraryVars

\* the maps of the store operations that reach save()
SavedBy(results) == { r.map : r \in { x \in results : x.res = "ok" } }

\* the writes of agents.json a frame can start: the file before the write
\* and the map written, for create, update, delete and the clear of
\* reset_agents
AgentWrites ==
    LET valid == { a \in AgentPayloads : validate_tools(a, ToolTable) }
        ids == {UserAgent, "general-assistant"}
    IN  { << adisk, m >> : m \in SavedBy(
              { AgentStorage_create(agents, adisk, a, TRUE) : a \in valid }
              \cup { AgentStorage_update(agents, adisk, ia[1], ia[2], TRUE) :
                        ia \in ids \X valid }
              \cup { AgentStorage_delete(agents, adisk, id, TRUE) : id \in ids }
              \cup { AgentStorage_clear(agents, adisk, TRUE) }) }

\* the writes of prompts.json a frame can start
PromptWrites ==
    { << pdisk, m >> : m \in SavedBy(
          { PromptStorage_create(prompts, pdisk, q, TRUE) : q \in PromptPayloads }
          \cup { PromptStorage_update(prompts, pdisk, q.id, q, TRUE) : q \in PromptPayloads }
          \cup { PromptStorage_delete(prompts, pdisk, id, TRUE) : id \in {UserPrompt, BuiltinPrompt} }
          \cup { clear_user_created(prompts, pdisk, TRUE) }) }

\* fs::write when the process dies in it: the file is created or emptied,
\* then filled, so that it is found as it was, empty, cut short or complete
fs_write_interrupted(old, contents) == { old, EmptyFile, TruncatedFile, contents }

\* the process is killed while save() writes a store file
CrashedWrite ==
    /\ hpc = "recv"
    /\ \/ /\ \E w \in AgentWrites :
                adisk' \in fs_write_interrupted(w[1], to_string_pretty(w[2]))
          /\ pdisk' = pdisk
       \/ /\ \E w \in PromptWrites :
                pdisk' \in fs_write_interrupted(w[1], to_string_pretty(w[2]))
          /\ adisk' = adisk
    /\ Down
    /\ UNCHANGED nsavefail
    /\ UNCHANGED chatVars
    /\ UNCHANGED convVars
    /\ UNCHANGED libraryVars

\* a constructor that seeds and saves the defaults whatever the file holds
AgentStorage_new_seeds(disk, saveOk) == save(create_default_agents, disk, saveOk)

\* AgentStorage::new: the file is loaded, or the defaults are seeded and
\* saved when there is no file
AgentStorage_new(disk, saveOk) ==
    IF disk = NoFile THEN save(create_default_agents, disk, saveOk)
    ELSE IF parses(disk) THEN StoreResult(from_str(disk), disk, "ok")
    ELSE StoreResult(<<>>, disk, "parse_failed")

\* PromptStorage::new: the file is loaded, or the store starts empty
PromptStorage_new(disk) ==
    IF disk = NoFile THEN StoreResult(<<>>, disk, "ok")
    ELSE IF parses(disk) THEN StoreResult(from_str(disk), disk, "ok")
    ELSE StoreResult(<<>>, disk, "parse_failed")

\* the process is started again: main constructs both stores from their
\* files and enters the connection loop, or returns the error of a store
Restart ==
    /\ hpc = "down"
    /\ \E saveOk \in SaveOutcomes :
        LET a == AgentStorage_new(adisk, saveOk)
            q == PromptStorage_new(pdisk)
        IN  /\ adisk' = a.disk
            /\ CountSave(a.res)
            /\ IF a.res = "ok" /\ q.res = "ok"
               THEN /\ agents' = a.map
                    /\ prompts' = q.map
                    /\ hpc' = "dial"
               ELSE /\ agents' = <<>>
                    /\ prompts' = <<>>
                    /\ hpc' = "failed"
    /\ UNCHANGED <<sock, pdisk, request, reply>>
    /\ UNCHANGED chatVars
    /\ UNCHANGED convVars
    /\ UNCHANGED libraryVars

\* the process after AgentStorage::new and PromptStorage::new, before the
\* first connection: the agents are the seeded defaults
ProtoInit ==
    /\ hpc = "dial"
    /\ sock = "broken"
    /\ agents = create_default_agents
    /\ adisk = to_string_pretty(create_default_agents)
    /\ pdisk \in PromptFiles
    /\ prompts = IF pdisk = NoFile THEN <<>> ELSE from_str(pdisk)
    /\ request = NoRequest
    /\ reply = <<>>
    /\ nsavefail = 0
    /\ stack = <<>>
    /\ chan = <<>>
    /\ senders = {}
    /\ streamer = None
    /\ frames = <<>>
    /\ result = NoResult
    /\ nsent = 0
    /\ ndeleg = 0
    /\ ncalls = 0
    /\ lastEvent = NoEvent
    /\ returned = <<>>
    /\ refused = {}
    /\ conv = ConvStart
    /\ relay = RelayStart
    /\ detector = DetectorStart
    /\ interp = InterpStart

ProtoNext ==
    \/ Connect
    \/ SocketClosed
    \/ IgnoredFrame
    \/ PingFrame
    \/ GetAgents
    \/ GetAgent
    \/ GetPrompts
    \/ GetPresets
    \/ GetTools
    \/ CreateAgent
    \/ UpdateAgent
    \/ DeleteAgent
    \/ ResetAgents
    \/ CreatePrompt
    \/ UpdatePrompt
    \/ DeletePrompt
    \/ ResetPrompts
    \/ RawCommand
    \/ InvalidJson
    \/ NextFrame

\* the session handler on every frame but chat_request
ProtoSpec == ProtoInit /\ [][ProtoNext]_vars

CrashNext ==
    \/ Connect
    \/ CreateAgent
    \/ UpdateAgent
    \/ DeleteAgent
    \/ ResetAgents
    \/ CreatePrompt
    \/ UpdatePrompt
    \/ DeletePrompt
    \/ ResetPrompts
    \/ NextFrame
    \/ Crash
    \/ CrashedWrite
    \/ Restart

\* the store requests in a process that can be killed and started again
CrashSpec == ProtoInit /\ [][CrashNext]_vars

\* ------------------------------------------- WebSocketRelayClient::run
\* an OutgoingMessage, with the inbound message it answers
Outgoing(type, r) == [type |-> type, req |-> r]

\* a channel that puts a new message in front of the waiting ones
unbounded_send_front(queue, msg) == << msg >> \o queue

\* UnboundedSender::send on a channel whose receiver is alive
unbounded_send(queue, msg) == Append(queue, msg)

\* `let _ = tx.send(msg)`: the message is queued while the receiver of the
\* writer task is alive, otherwise the Err is dropped
RelaySend(R, msg) ==
    IF R.writer = "running"
    THEN [R EXCEPT !.chan = unbounded_send(@, msg), !.placed = Append(@, msg)]
    ELSE R

\* the end of the task of inbound message r: its senders are dropped
RelayTaskEnds(R, r) ==
    [R EXCEPT !.tasks[r].pc = "done", !.senders = @ \ {TaskTx(r), ManagerTx(r)}]

\* the kinds of inbound Text messages that parse as IncomingMessage
IncomingKinds == {"chat_request", "get_presets"}

\* the read loop takes a Text message that parses: a task is spawned for it
\* with a clone of tx_clone
RelaySpawn ==
    /\ relay.pc = "read"
    /\ Len(relay.tasks) < MaxRelayMessages
    /\ \E kind \in IncomingKinds :
        relay' = [relay EXCEPT
                    !.tasks = Append(@, [kind |-> kind, pc |-> "start", nsteps |-> 0]),
                    !.senders = @ \cup {TaskTx(Len(relay.tasks) + 1)}]
    /\ UNCHANGED <<hpc, agents, sock, conv, detector, interp>>
    /\ UNCHANGED chatVars
    /\ UNCHANGED protoVars

\* the read loop ends on Close or on a stream error: drop(tx_clone), then
\* the await on the writer task (a Text that does not parse and the other
\* message kinds leave the state as it is)
RelayReadEnds ==
    /\ relay.pc = "read"
    /\ relay' = [relay EXCEPT !.pc = "await_writer", !.senders = @ \ {TxClone}]
    /\ UNCHANGED <<hpc, agents, sock, conv, detector, interp>>
    /\ UNCHANGED chatVars
    /\ UNCHANGED protoVars

\* the task of a get_presets, reset_presets or get_prompts message: one
\* PresetsList; the start of the task of a chat request: the agent lookup,
\* which can fail, then the manager with its clone of tx
RelayTaskStarts ==
    /\ \E r \in DOMAIN relay.tasks :
        /\ relay.tasks[r].pc = "start"
        /\ IF relay.tasks[r].kind = "get_presets"
           THEN relay' = RelayTaskEnds(RelaySend(relay, Outgoing("presets_list", r)), r)
           ELSE \E found \in BOOLEAN :
                relay' = IF found
                         THEN [relay EXCEPT !.tasks[r].pc = "execute",
                                            !.senders = @ \cup {ManagerTx(r)}]
                         ELSE RelayTaskEnds(relay, r)
    /\ UNCHANGED <<hpc, agents, sock, conv, detector, interp>>
    /\ UNCHANGED chatVars
    /\ UNCHANGED protoVars

\* agent.execute of a chat task sends a step through the manager
RelayTaskSendsStep ==
    /\ \E r \in DOMAIN relay.tasks :
        /\ relay.tasks[r].pc = "execute"
        /\ relay.tasks[r].nsteps < MaxRelaySteps
        /\ relay' = [RelaySend(relay, Outgoing("execution_step", r))
                        EXCEPT !.tasks[r].nsteps = @ + 1]
    /\ UNCHANGED <<hpc, agents, sock, conv, detector, interp>>
    /\ UNCHANGED chatVars
    /\ UNCHANGED protoVars

\* agent.execute of a chat task returns after its first step: an Err leaves
\* handle_message with `?`, an Ok is followed by the ChatResponse
RelayTaskReturns ==
    /\ \E r \in DOMAIN relay.tasks : \E failed \in BOOLEAN :
        /\ relay.tasks[r].pc = "execute"
        /\ relay.tasks[r].nsteps >= 1
        /\ relay' = IF failed THEN RelayTaskEnds(relay, r)
                    ELSE RelayTaskEnds(RelaySend(relay, Outgoing("chat_response", r)), r)
    /\ UNCHANGED <<hpc, agents, sock, conv, detector, interp>>
    /\ UNCHANGED chatVars
    /\ UNCHANGED protoVars

\* one turn of the writer task: rx.recv() yields a message and it is
\* written, or the write fails and the task breaks and drops rx; rx.recv()
\* yields None once the channel is empty and every sender is dropped
RelayWriter ==
    /\ relay.writer = "running"
    /\ IF relay.chan # <<>>
       THEN \E sent \in BOOLEAN :
            relay' = IF sent
                     THEN [relay EXCEPT !.chan = recv(relay.chan).rest,
                                        !.written = Append(@, recv(relay.chan).step)]
                     ELSE [relay EXCEPT !.chan = <<>>, !.writer = "done"]
       ELSE /\ relay.senders = {}
            /\ relay' = [relay EXCEPT !.writer = "done"]
    /\ UNCHANGED <<hpc, agents, sock, conv, detector, interp>>
    /\ UNCHANGED chatVars
    /\ UNCHANGED protoVars

\* write_handle.await completes and run returns Ok: tx is dropped
RelayReturns ==
    /\ relay.pc = "await_writer"
    /\ relay.writer = "done"
    /\ relay' = [relay EXCEPT !.pc = "returned", !.senders = @ \ {Tx}]
    /\ UNCHANGED <<hpc, agents, sock, conv, detector, interp>>
    /\ UNCHANGED chatVars
    /\ UNCHANGED protoVars

RelayNext ==
    \/ RelaySpawn
    \/ RelayReadEnds
    \/ RelayTaskStarts
    \/ RelayTaskSendsStep
    \/ RelayTaskReturns
    \/ RelayWriter
    \/ RelayReturns

\* one call of WebSocketRelayClient::run on a connected socket
RelaySpec == ProtoInit /\ [][RelayNext]_vars

\* -------------------------------------------------------- LoopDetector
\* one call of check_loop
CheckLoop ==
    /\ detector.nchecks < MaxChecks
    /\ \E tool_name \in DetectorTools, args \in DetectorArgs :
        LET r == check_loop(detector.recent_calls, tool_name, args)
        IN  detector' = [recent_calls |-> r.recent_calls,
                         nchecks |-> detector.nchecks + 1,
                         last |-> [tool_name |-> tool_name, args |-> args,
                                   before |-> detector.recent_calls,
                                   answer |-> r.answer]]
    /\ UNCHANGED <<hpc, agents, sock, conv, relay, interp>>
    /\ UNCHANGED chatVars
    /\ UNCHANGED protoVars

DetectorNext == CheckLoop

\* a LoopDetector under a sequence of check_loop calls
DetectorSpec == ProtoInit /\ [][DetectorNext]_vars

\* ------------------------------------ AdvancedInterpolator::interpolate
\* interpolate up to the call of interpolate_functions: the pass over the
\* context variables
InterpolateVariables ==
    /\ interp.pc = "start"
    /\ \E input \in InterpInputs, context \in InterpContexts :
        interp' = [interp EXCEPT !.pc = "functions", !.context = context,
                                 !.input = input,
                                 !.result = replace_variables(input, context)]
    /\ UNCHANGED <<hpc, agents, sock, conv, relay, detector>>
    /\ UNCHANGED chatVars
    /\ UNCHANGED protoVars

\* one turn of `while let Some(start) = result.find("{")`: the loop ends
\* when there is no opening or no closing brace, an Err of the function is
\* returned with `?`, a value replaces the brace group, and a group that
\* is no call of a registered function is left as it is
InterpolateFunctionsTurn ==
    /\ interp.pc = "functions"
    /\ interp.turns < MaxInterpTurns
    /\ LET text == interp.result
           start == find(text, "{")
           rest == SubSeq(text, start, Len(text))
           end == start + find(rest, "}") - 1
           value == evaluate_function_call(SubSeq(text, start + 1, end - 1))
       IN  interp' =
            IF start = 0 \/ find(rest, "}") = 0
            THEN [interp EXCEPT !.pc = "done", !.outcome = "ok"]
            ELSE IF value.kind = "err"
            THEN [interp EXCEPT !.pc = "done", !.outcome = "err"]
            ELSE IF value.kind = "some"
            THEN [interp EXCEPT !.turns = @ + 1,
                                !.result = replace_range(text, start, end,
                                                         value_to_string(value.value))]
            ELSE [interp EXCEPT !.turns = @ + 1]
    /\ UNCHANGED <<hpc, agents, sock, conv, relay, detector>>
    /\ UNCHANGED chatVars
    /\ UNCHANGED protoVars

InterpNext ==
    \/ InterpolateVariables
    \/ InterpolateFunctionsTurn

\* one call of AdvancedInterpolator::interpolate
InterpSpec == ProtoInit /\ [][InterpNext]_vars

ConvNext ==
    \/ ConvChat
    \/ ConvToolCall

\* one call of ConversationalAgent::execute with a scripted LLM
ConvSpec == ProtoInit /\ [][ConvNext]_vars

\* ------------------------------------------------------------ the claims
TopFrame == stack[Len(stack)]

\* the steps the last step of the model sent on the channel
NewSteps == { s \in { chan'[i] : i \in DOMAIN chan' } : s.seq > nsent }

TextGoalMixed ==
    <<Blank,"o","k",Blank,"G","o","a","l","_","c","o","m","p","l","e","t","e",Blank>>
ThoughtGoalMixed ==
    <<"o","k",Blank,"G","o","a","l","_","c","o","m","p","l","e","t","e">>
MouseMove == ToolCallSignature("mouse_move", "x0y0")
DelegateToWorker == ToolCallSignature(DelegateTool, WorkerAgent)

\* C1: once the top-level execute call has returned, every sender of the
\* step channel is released (so that the step-writer task can end and the
\* handler can send the chat_response).
C1_SendersReleased == hpc = "await_streamer" => senders = {}

C3_AtMostMaxIterations ==
    /\ \A i \in DOMAIN stack :
          /\ stack[i].nReason <= stack[i].maxIter
          /\ stack[i].nAction <= stack[i].maxIter
    /\ \A i \in DOMAIN returned :
          /\ returned[i].nReason <= returned[i].maxIter
          /\ returned[i].nAction <= returned[i].maxIter

\* an execution has used up all its iterations
C3_Witness ==
    \E i \in DOMAIN returned :
        /\ returned[i].exec = 0
        /\ returned[i].maxIter >= 2
        /\ returned[i].nReason = returned[i].maxIter
        /\ returned[i].nAction = returned[i].maxIter
        /\ returned[i].result.kind = "max_iterations"

C5_DepthBounded ==
    /\ Len(stack) <= MaxDelegationDepth + 1
    /\ \A i \in DOMAIN stack : stack[i].depth = i - 1

\* a dispatcher at the maximum depth was asked to delegate
C5_Witness ==
    /\ lastEvent.op = "tool"
    /\ lastEvent.outcome = "delegate"
    /\ lastEvent.exec = MaxDelegationDepth

\* C6 as stated: the step numbers of the steps of the top-level execution
\* are strictly increasing.
C6_StrictlyIncreasing ==
    \A i, j \in DOMAIN chan :
        (i < j /\ chan[i].exec = 0 /\ chan[j].exec = 0)
            => chan[i].stepNumber < chan[j].stepNumber

\* C6 as amended: the step numbers of the top-level execution start at one
\* and never decrease, the numbers of its Action steps strictly increase,
\* and no step is sent twice.
C6_NonDecreasing ==
    /\ \A i \in DOMAIN chan :
          chan[i].seq = 1 => (chan[i].exec = 0 /\ chan[i].stepNumber = 1)
    /\ \A i, j \in DOMAIN chan :
          (i < j /\ chan[i].exec = 0 /\ chan[j].exec = 0)
              => /\ chan[i].stepNumber <= chan[j].stepNumber
                 /\ (chan[i].observation = None /\ chan[j].observation = None)
                        => chan[i].stepNumber < chan[j].stepNumber
                 /\ <<chan[i].stepNumber, chan[i].toolIdx>> # <<chan[j].stepNumber, chan[j].toolIdx>>

\* the channel holds steps of two iterations of the top-level execution,
\* two of them with the same number
C6_Witness ==
    \E i, j, k \in DOMAIN chan :
        /\ i < j /\ j < k
        /\ chan[i].exec = 0 /\ chan[j].exec = 0 /\ chan[k].exec = 0
        /\ chan[i].stepNumber = 1 /\ chan[j].stepNumber = 1
        /\ chan[k].stepNumber = 2

\* C7: a reasoning response that contains GOAL_COMPLETE in any letter case
\* makes the execution return 'Task completed: <thought>' at once: no
\* action call, no tool dispatch and no step of that execution.
C7_GoalCompleteReturns ==
    [][ ( /\ lastEvent'.op = "reason"
          /\ lastEvent'.outcome = "ok"
          /\ lastEvent'.text \in {GOAL_COMPLETE, TextGoalMixed} )
        => /\ returned' # <<>>
           /\ returned'[1].exec = TopFrame.depth
           /\ returned'[1].result.kind = "task_completed"
           /\ returned'[1].result.thought =
                 (IF lastEvent'.text = TextGoalMixed THEN ThoughtGoalMixed ELSE GOAL_COMPLETE)
           /\ returned'[1].nAction = TopFrame.nAction
           /\ returned'[1].ndispatch = TopFrame.ndispatch
           /\ \A s \in NewSteps : s.exec # TopFrame.depth ]_vars

\* a mixed-case GOAL_COMPLETE ended an execution in its second iteration
C7_Witness ==
    /\ lastEvent.op = "reason"
    /\ lastEvent.text = TextGoalMixed
    /\ returned # <<>>
    /\ returned[1].result.kind = "task_completed"
    /\ returned[1].iteration = 2

\* the tool executor answered Err for the current tool call
ToolCallFailed ==
    /\ lastEvent'.op = "tool"
    /\ \/ lastEvent'.outcome = "err"
       \/ /\ lastEvent'.outcome = "delegate"
          /\ \/ TopFrame.depth >= MaxDelegationDepth
             \/ TopFrame.calls[TopFrame.idx][2] \notin DOMAIN agents

\* C8: a failed tool call does not abort the execution: an Observation step
\* with the error is sent, the observation message gets a FAILED entry, the
\* next tool call of the response is executed, and after the last one the
\* loop goes to the next iteration (or returns Ok when none is left).
C8_ToolFailureRecovered ==
    [][ ToolCallFailed
        => LET f == TopFrame
               d == f.depth
               failed == [status |-> "FAILED", call |-> f.calls[f.idx]]
           IN  /\ \E s \in NewSteps :
                     /\ s.exec = d
                     /\ s.observation = "error"
                     /\ s.stepNumber = f.iteration
                     /\ s.toolIdx = f.idx
               /\ \A i \in DOMAIN returned' : returned'[i].result.kind # "error"
               /\ IF f.idx < Len(f.calls)
                  THEN /\ Len(stack') = Len(stack)
                       /\ stack'[d + 1].pc = "tool"
                       /\ stack'[d + 1].idx = f.idx + 1
                       /\ stack'[d + 1].calls = f.calls
                       /\ stack'[d + 1].observations = Append(f.observations, failed)
                  ELSE IF f.iteration < f.maxIter
                  THEN /\ Len(stack') = Len(stack)
                       /\ stack'[d + 1].pc = "reason"
                       /\ stack'[d + 1].iteration = f.iteration + 1
                       /\ stack'[d + 1].messages =
                             Append(f.messages,
                                    Message("user", "observations", Append(f.observations, failed)))
                  ELSE /\ returned' # <<>>
                       /\ returned'[1].exec = d
                       /\ returned'[1].result.kind = "max_iterations"
                       /\ returned'[1].lastMessage =
                             Message("user", "observations", Append(f.observations, failed)) ]_vars

\* the first of two tool calls failed and the second one is about to run
C8_Witness ==
    /\ lastEvent.op = "tool"
    /\ lastEvent.outcome = "err"
    /\ stack # <<>>
    /\ TopFrame.pc = "tool"
    /\ TopFrame.idx = 2
    /\ TopFrame.observations = << [status |-> "FAILED", call |-> MouseMove] >>

\* C9: a failed LLM call in any execution of a chat aborts the chat with an
\* error result (the result that makes the chat_response carry error = true).
C9_LlmFailureAbortsChat ==
    (lastEvent.op \in {"reason", "act"} /\ lastEvent.outcome = "err")
        => (stack = <<>> /\ result.kind = "error")

\* C10: a chat_request that names an unknown tool identifier is answered
\* with one chat_response with error = true; the executor is not invoked,
\* no step channel is created and no execution_step frame is sent.
C10_UnknownToolRejected ==
    (lastEvent.op = "chat_request" /\ UnknownTool \in lastEvent.tools)
        => /\ frames = << ChatResponse(TRUE) >>
           /\ hpc = "recv"
           /\ stack = <<>>
           /\ returned = <<>>
           /\ streamer = None
           /\ senders = {}
           /\ chan = <<>>
           /\ nsent = 0

\* a request with a known and an unknown tool identifier was answered
C10_Witness ==
    /\ lastEvent.op = "chat_request"
    /\ lastEvent.tools = {"mouse_move", UnknownTool}
    /\ frames = << ChatResponse(TRUE) >>

\* the frame handled by the last step of the session handler asked for an
\* update or a delete of the record id of a store
Targets(types, id, map) ==
    /\ hpc = "recv"
    /\ request'.type \in types
    /\ request'.id = id
    /\ id \in DOMAIN map
    /\ map[id].isLocked

\* C11: in the agent store and in the prompt store an update or a delete
\* that names a locked record is answered with an error and leaves the
\* record and the whole store, in memory and on disk, unchanged; every
\* locked record is still there with its content after any update or delete.
C11_LockedRecordsStay ==
    [][ /\ \A id \in DOMAIN agents :
            Targets({"update_agent", "delete_agent"}, id, agents)
                => /\ reply' = << Frame("agent_error", NoCommandId, None, {}) >>
                   /\ agents' = agents
                   /\ adisk' = adisk
        /\ \A id \in DOMAIN prompts :
            Targets({"update_prompt", "delete_prompt"}, id, prompts)
                => /\ reply' = << Frame("prompt_error", NoCommandId, None, {}) >>
                   /\ prompts' = prompts
                   /\ pdisk' = pdisk
        /\ (hpc = "recv" /\ request'.type \in {"update_agent", "delete_agent",
                                               "update_prompt", "delete_prompt"})
                => /\ \A id \in DOMAIN agents :
                        agents[id].isLocked
                            => (id \in DOMAIN agents' /\ agents'[id] = agents[id])
                   /\ \A id \in DOMAIN prompts :
                        prompts[id].isLocked
                            => (id \in DOMAIN prompts' /\ prompts'[id] = prompts[id])
      ]_vars

\* the delete of the locked built-in prompt was refused in a session that
\* had created an agent next to the locked seeded ones
C11_Witness ==
    /\ hpc = "handled"
    /\ request.type = "delete_prompt"
    /\ request.id = BuiltinPrompt
    /\ BuiltinPrompt \in DOMAIN prompts
    /\ prompts[BuiltinPrompt].isLocked
    /\ reply = << Frame("prompt_error", NoCommandId, None, {}) >>
    /\ UserAgent \in DOMAIN agents
    /\ "general-assistant" \in DOMAIN agents
    /\ agents["general-assistant"].isLocked

\* C12: after the seeding and any sequence of create_agent, update_agent,
\* delete_agent and reset_agents, every stored agent lists only identifiers
\* of the available tools.
C12_StoredToolsAvailable ==
    \A id \in DOMAIN agents : agents[id].tools \subseteq ToolTable

\* an update was accepted in a store that was reset and then extended
C12_Witness ==
    /\ hpc = "handled"
    /\ request.type = "update_agent"
    /\ request.id = UserAgent
    /\ reply # <<>>
    /\ reply[1].type = "agent_updated"
    /\ agents[UserAgent].maxIterations = 2
    /\ "orchestrator-agent" \in DOMAIN agents
    /\ "general-assistant" \notin DOMAIN agents

\* C13: for every inbound frame of every kind, the response carries a
\* commandId exactly when the request carried one, with the same value.
C13_CommandIdEchoed ==
    (hpc = "handled" /\ reply # <<>>)
        => reply[1].commandId = request.commandId

\* C14: every Observation step is preceded in the stream by an Action step
\* of the same execution and iteration for the same tool call (Action 1,
\* Observation 1, Action 2, Observation 2, ...). While the writer task has
\* taken nothing yet, the channel holds the whole stream of the chat.
C14_ObservationAfterItsAction ==
    (frames = <<>> /\ nsent = Len(chan))
        => \A j \in DOMAIN chan :
              chan[j].observation # None
                  => \E i \in 1..(j - 1) :
                        /\ chan[i].observation = None
                        /\ chan[i].exec = chan[j].exec
                        /\ chan[i].stepNumber = chan[j].stepNumber
                        /\ chan[i].action = chan[j].action

\* C15: every step sent by a nested execution carries the identifier of the
\* delegation target that runs it (the target of the tool call its parent
\* is waiting on), at every depth; every step of the top-level execution
\* carries the agentId the chat request gave to execute (or none).
C15_StepsTaggedByAgent ==
    [][ \A s \in NewSteps :
            IF s.exec = 0
            THEN s.agentId = stack[1].agentId
            ELSE LET parent == stack[s.exec]
                 IN  /\ parent.pc = "wait"
                     /\ IsDelegateCall(parent.calls[parent.idx])
                     /\ s.agentId = parent.calls[parent.idx][2] ]_vars

\* steps of the top-level execution of agent "orchestrator" and of the
\* nested execution at the maximum depth are in the channel
C15_Witness ==
    \E i, j \in DOMAIN chan :
        /\ chan[i].exec = 0
        /\ chan[i].agentId = "orchestrator"
        /\ chan[j].exec = MaxDelegationDepth
        /\ chan[j].agentId = WorkerAgent

\* C16: the delegation asked of a dispatcher at depth MaxDelegationDepth is
\* refused with an error that names the target and starts no execution; the
\* refusal is a failed Observation of the requesting execution, which goes
\* on like its ancestors, and the chat whose top-level execution returns Ok
\* is answered with a chat_response without error flag: the chat does not
\* come to rest before that frame is written.
C16_RefusalAnswered ==
    (refused # {} /\ stack = <<>> /\ result.kind \notin {None, "error"} /\ ~ENABLED Next)
        => /\ frames # <<>>
           /\ frames[Len(frames)] = ChatResponse(FALSE)

\* C17: when the first tool call of an action response has a signature
\* that is already twice in the loop-detection history, execute returns Ok
\* with the 'I attempted to call ...' string, sends no step for that
\* iteration and dispatches none of the calls of the response; the chat
\* whose top-level execution returned so is answered with a chat_response
\* without error flag: it does not come to rest before that frame is written.
C17_LoopAbortAnswered ==
    /\ [][ (lastEvent'.op = "act" /\ returned' # <<>>
                /\ returned'[1].result.kind = "loop_abort")
            => /\ returned'[1].exec = TopFrame.depth
               /\ returned'[1].ndispatch = TopFrame.ndispatch
               /\ \A s \in NewSteps : s.exec # TopFrame.depth ]_vars
    /\ []( (result.kind = "loop_abort" /\ ~ENABLED Next)
            => /\ frames # <<>>
               /\ frames[Len(frames)] = ChatResponse(FALSE) )

\* the largest iteration cap of the executions of the model
IterationCap == IF MaxIterations > WorkerIterations THEN MaxIterations ELSE WorkerIterations

RECURSIVE ExecutionBound(_)
\* a bound on the number of turns and tool dispatches of an execution whose
\* dispatcher has depth d, those of its nested executions included: two
\* turns and MaxCalls tool calls an iteration, a nested execution a call
ExecutionBound(d) ==
    IterationCap * (2 + MaxCalls * (1 + IF d >= MaxDelegationDepth THEN 0
                                        ELSE ExecutionBound(d + 1)))

\* what is left of that bound for an execution in flight
FrameRank(f) ==
    LET perCall == 1 + (IF f.depth >= MaxDelegationDepth THEN 0
                        ELSE ExecutionBound(f.depth + 1))
        perIteration == 2 + MaxCalls * perCall
    IN  (f.maxIter - f.iteration) * perIteration
        + CASE f.pc = "reason" -> perIteration
            [] f.pc = "act" -> perIteration - 1
            [] f.pc = "tool" -> (Len(f.calls) - f.idx + 1) * perCall
            [] f.pc = "wait" -> (Len(f.calls) - f.idx) * perCall

RECURSIVE RankOf(_)
RankOf(frameSeq) ==
    IF frameSeq = <<>> THEN 0 ELSE FrameRank(Head(frameSeq)) + RankOf(Tail(frameSeq))

Rank == RankOf(stack)

\* C18: every top-level execution terminates when each LLM call and each
\* tool call returns: while an execution is in flight the innermost one is
\* at a turn or at a tool call (never waiting), and each turn and each
\* tool dispatch strictly decreases a measure that
\* starts at most at ExecutionBound(0), a number made of the iteration caps
\* and the delegation depth cap, and never drops below zero; an execution
\* that uses up its iterations returns Ok with the 'Max iterations' string
\* on the last buffered message.
C18_ExecutionsTerminate ==
    /\ [][ (lastEvent'.op = "chat_request") => Rank' <= ExecutionBound(0) ]_vars
    /\ [][ (hpc = "exec" /\ lastEvent'.op \in {"reason", "act", "tool"})
            => /\ Rank' < Rank
               /\ Rank' >= 0
               /\ \A i \in DOMAIN returned' :
                    returned'[i].result.kind = "max_iterations"
                        => /\ returned'[i].iteration = returned'[i].maxIter
                           /\ returned'[i].nReason = returned'[i].maxIter
                           /\ returned'[i].nAction = returned'[i].maxIter
                           /\ returned'[i].lastMessage.kind =
                                 (IF returned'[i].maxIter = 0 THEN "input"
                                  ELSE "observations") ]_vars
    /\ []( (hpc = "exec")
            => /\ stack # <<>>
               /\ TopFrame.pc \in {"reason", "act", "tool"} )

\* a chain of executions down to the maximum depth has returned in one
\* step, the deepest one by using up its iterations
C18_Witness ==
    /\ stack = <<>>
    /\ Len(returned) = MaxDelegationDepth + 1
    /\ returned[1].exec = MaxDelegationDepth
    /\ returned[1].result.kind = "max_iterations"
    /\ returned[1].nAction >= 1

\* C19: after any socket close or socket error the process waits and
\* re-dials (and sends the handshake with the agent store of that moment):
\* it does not come to rest on a broken socket anywhere but on its way out
\* of connect_and_run to the next dial.
C19_BrokenSocketRedialed ==
    (sock = "broken" /\ stack = <<>> /\ chan = <<>> /\ ~ENABLED SockNext)
        => hpc = "dial"

\* the writer task took a step off the channel and its write to the socket
\* failed
FailedStepWrite ==
    /\ streamer = "running"
    /\ chan # <<>>
    /\ sock = "broken"
    /\ chan' = Tail(chan)

\* C20: when a socket write fails while the steps of a chat are streamed,
\* the step-writer task terminates, and the executor ignores the failing
\* step sends and runs to completion.
C20_WriterEndsOnFailedWrite ==
    [][ FailedStepWrite => (streamer' = "done" /\ stack' = stack) ]_vars

\* C21: when the write of a store file fails during a create, update,
\* delete or reset of agents or prompts, the request alone is aborted: the
\* handler answers it with an error-typed frame and goes on receiving,
\* unless the socket itself fails under that answer.
C21_SaveFailureAnswered ==
    [][ (nsavefail' > nsavefail /\ sock' # "broken")
            => /\ hpc' = "handled"
               /\ reply' # <<>>
               /\ reply'[1].type \in {"agent_error", "prompt_error", "error"}
      ]_vars

\* C22: when the process dies while a store mutation writes its file, the
\* file holds the complete map from before the mutation or the complete map
\* after it, never an empty, a truncated or a partial content.
C22_CrashedWriteAtomic ==
    [][ (hpc = "recv" /\ hpc' = "down")
            => /\ adisk' \in { adisk } \cup { to_string_pretty(w[2]) : w \in AgentWrites }
               /\ pdisk' \in { pdisk } \cup { to_string_pretty(w[2]) : w \in PromptWrites }
      ]_vars

\* the ok-typed answers of the agent and of the prompt mutations
AgentOkTypes == {"agent_created", "agent_updated", "agent_deleted", "agents_reset"}
PromptOkTypes == {"prompt_created", "prompt_updated", "prompt_deleted", "prompts_reset"}

\* C23: a store constructed at a restart holds what the file of the store
\* held when the process went down, the files are not rewritten by the
\* restart, and a restart on complete files does construct the stores; the
\* file holds the whole in-memory map after every mutation that was
\* answered as done.
C23_RestartLoadsPersisted ==
    [][ /\ (hpc = "down" /\ hpc' # "down" /\ parses(adisk) /\ pdisk.state \in {"absent", "complete"})
            => /\ hpc' = "dial"
               /\ to_string_pretty(agents') = adisk
               /\ IF pdisk = NoFile THEN prompts' = <<>>
                  ELSE to_string_pretty(prompts') = pdisk
               /\ adisk' = adisk
               /\ pdisk' = pdisk
        /\ (hpc' = "handled" /\ reply' # <<>> /\ reply'[1].type \in AgentOkTypes)
            => adisk' = to_string_pretty(agents')
        /\ (hpc' = "handled" /\ reply' # <<>> /\ reply'[1].type \in PromptOkTypes)
            => pdisk' = to_string_pretty(prompts')
      ]_vars

\* the process was started again after a failed write and came up with a
\* created agent and a created prompt read from the files
C23_Witness ==
    /\ hpc = "dial"
    /\ request = NoRequest
    /\ nsavefail = 1
    /\ UserAgent \in DOMAIN agents
    /\ UserPrompt \in DOMAIN prompts
    /\ to_string_pretty(agents) = adisk
    /\ to_string_pretty(prompts) = pdisk

\* the frame handled by the last step was a mutating request of the agent
\* id: a create of a record with that id, an update or a delete that names
\* it, or a reset of the store. A frame whose answer could not be sent has
\* lost its members and counts for every id
MutatesAgent(id) ==
    \/ request'.type = "reset_agents"
    \/ /\ request'.type \in {"create_agent", "update_agent", "delete_agent"}
       /\ \/ hpc' # "handled"
          \/ request'.type = "create_agent" /\ request'.body # <<>> /\ request'.body[1].id = id
          \/ request'.type \in {"update_agent", "delete_agent"} /\ request'.id = id

\* C24: a create_agent answered with agent_created followed by a get_agent
\* of the same id, with no mutating request of that id in between, returns
\* the record that was created: the create stores the record it answers
\* with under its id, no other frame touches the record of that id, and
\* get_agent answers with the record stored under the id.
C24_CreateThenGet ==
    [][ /\ (hpc' = "handled" /\ request'.type = "create_agent"
                /\ reply'[1].type = "agent_created")
            => LET a == request'.body[1]
               IN  /\ a.id \in DOMAIN agents'
                   /\ agents'[a.id] = a
                   /\ reply'[1].body = {a}
        /\ \A id \in DOMAIN agents :
            ~MutatesAgent(id) => (id \in DOMAIN agents' /\ agents'[id] = agents[id])
        /\ (hpc' = "handled" /\ request'.type = "get_agent" /\ request'.id \in DOMAIN agents)
            => reply' = << Frame("agent_data", NoCommandId, None, {agents[request'.id]}) >>
      ]_vars

\* get_agent returned the user agent as it was created
C24_Witness ==
    /\ hpc = "handled"
    /\ request.type = "get_agent"
    /\ request.id = UserAgent
    /\ reply = << Frame("agent_data", NoCommandId, None,
                        {[id |-> UserAgent, tools |-> {"mouse_move"}, maxIterations |-> 1,
                          isLocked |-> FALSE]}) >>

\* C25: update_agent sent twice with the same id and the same payload
\* leaves the agent store as sending it once does, for every payload: after
\* an update_agent frame was handled, the same update applied once more
\* changes no record, and no byte of the file when the first save went
\* through, whether the second is accepted or refused as locked.
C25_UpdateTwiceIsOnce ==
    [][ (hpc' = "handled" /\ request'.type = "update_agent")
            => \A saveOk \in BOOLEAN :
                LET again == update_agent(agents', adisk', request'.id,
                                          request'.body, saveOk)
                IN  /\ again.map = agents'
                    /\ (nsavefail' = nsavefail) => (again.disk = adisk')
      ]_vars

\* the update that locks the user agent was sent again and refused, the
\* store holding the payload of the first
C25_Witness ==
    /\ hpc = "handled"
    /\ request.type = "update_agent"
    /\ request.id = UserAgent
    /\ request.body # <<>>
    /\ request.body[1].isLocked
    /\ reply = << Frame("agent_error", NoCommandId, None, {}) >>
    /\ UserAgent \in DOMAIN agents
    /\ agents[UserAgent] = request.body[1]

\* the agent store that holds the preset agents and nothing else
PresetStore ==
    [id \in { PresetAgents[i].id : i \in DOMAIN PresetAgents } |->
        PresetAgents[CHOOSE i \in DOMAIN PresetAgents : PresetAgents[i].id = id]]

\* C26: after a reset_agents request completes the agent store holds, in
\* memory and in its file, exactly the default agents, each locked, whatever
\* it held before and in whatever order the defaults were created; the
\* agents_reset answer lists the same agents.
C26_ResetYieldsDefaults ==
    [][ (hpc' = "handled" /\ request'.type = "reset_agents")
            => /\ agents' = PresetStore
               /\ \A id \in DOMAIN agents' : agents'[id].isLocked
               /\ adisk' = to_string_pretty(PresetStore)
               /\ reply'[1].type = "agents_reset"
               /\ reply'[1].body = get_all(agents')
      ]_vars

\* a reset completed in a session in which a save had failed before
C26_Witness ==
    /\ hpc = "handled"
    /\ request.type = "reset_agents"
    /\ reply # <<>>
    /\ nsavefail = 1
    /\ DOMAIN agents = DOMAIN PresetStore
    /\ UserAgent \notin DOMAIN agents
    /\ UserPrompt \in DOMAIN prompts

\* C27: after a reset_prompts request the prompt store holds the built-in
\* locked prompt templates and no user-created prompt, and a get_prompts
\* that follows returns exactly the prompts the prompts_reset reply lists.
C27_ResetPromptsYieldsBuiltins ==
    [][ (hpc' = "handled" /\ request'.type = "reset_prompts")
            => /\ \A id \in DOMAIN prompts' :
                    prompts'[id].isLocked /\ prompts'[id].category = "built-in"
               /\ \A q \in get_all_default_prompts : q.id \in DOMAIN prompts'
               /\ get_all(prompts') = reply'[1].body
      ]_vars

C29_InvalidJsonAnswered ==
    [][ /\ (hpc = "recv" /\ request'.type = "invalid_json")
            => /\ agents' = agents /\ adisk' = adisk
               /\ prompts' = prompts /\ pdisk' = pdisk
               /\ (sock' # "broken")
                    => /\ hpc' = "handled"
                       /\ sock' = "open"
                       /\ reply' = << Frame("error", NoCommandId, None, {}) >>
        /\ (hpc = "handled" /\ request.type = "invalid_json")
            => /\ hpc' = "recv"
               /\ sock' = "open"
               /\ agents' = agents /\ adisk' = adisk
               /\ prompts' = prompts /\ pdisk' = pdisk
      ]_vars

\* a frame that is not JSON was answered in a session that had created an
\* agent and a prompt
C29_Witness ==
    /\ hpc = "handled"
    /\ sock = "open"
    /\ request.type = "invalid_json"
    /\ reply = << Frame("error", NoCommandId, None, {}) >>
    /\ UserAgent \in DOMAIN agents
    /\ UserPrompt \in DOMAIN prompts

\* -------------------------------------------------------------------- C30
\* execute has returned Ok for a response with tool calls that each name
\* an available tool
ConvAllAvailable ==
    /\ conv.pc = "done" /\ conv.returned = "ok"
    /\ conv.tool_calls # <<>>
    /\ \A i \in 1..Len(conv.tool_calls[1]) : conv.tool_calls[1][i][1] \in ConvTools

\* the positions in AgentResult.steps of the steps of one type
StepsOfType(step_type) ==
    { j \in 1..Len(conv.steps) : conv.steps[j].step_type = step_type }

\* the position of the i-th Action step
NthAction(i) ==
    CHOOSE j \in StepsOfType("Action") :
        Cardinality({ k \in StepsOfType("Action") : k <= j }) = i

\* n Action and n Observation steps, the i-th Action carrying the i-th
\* call, each Action directly followed by an Observation
ConvRecorded ==
    LET calls == conv.tool_calls[1]
    IN  /\ Cardinality(StepsOfType("Action")) = Len(calls)
        /\ Cardinality(StepsOfType("Observation")) = Len(calls)
        /\ \A i \in 1..Len(calls) :
            /\ conv.steps[NthAction(i)].tool_call = << calls[i] >>
            /\ NthAction(i) + 1 \in StepsOfType("Observation")

\* C30 as stated: for a response with n calls of available tools the steps
\* hold n Action and n Observation steps, in the order of the calls, each
\* Observation directly after its Action, and the Observation of every
\* tool that returned Ok has success = true.
C30_OkObservationSucceeds ==
    ConvAllAvailable =>
        /\ ConvRecorded
        /\ \A i \in 1..Len(conv.tool_calls[1]) :
            conv.results[i].ok
                => conv.steps[NthAction(i) + 1].tool_observation[1].success = TRUE

\* C30 amended: as above, but the Observation of a tool that returned Ok
\* carries the success flag of the ToolResult the tool returned.
C30_ObservationCopiesSuccess ==
    ConvAllAvailable =>
        /\ ConvRecorded
        /\ \A i \in 1..Len(conv.tool_calls[1]) :
            conv.results[i].ok
                => conv.steps[NthAction(i) + 1].tool_observation[1].success
                       = conv.results[i].success

\* three calls were executed, one tool returned Ok with success false and
\* another Ok with success true
C30_Witness ==
    /\ ConvAllAvailable
    /\ Len(conv.tool_calls[1]) = MaxConvCalls
    /\ \E i, j \in 1..Len(conv.results) :
        /\ conv.results[i] = ToolOk(FALSE)
        /\ conv.results[j] = ToolOk(TRUE)
        /\ conv.tool_calls[1][i][1] # conv.tool_calls[1][j][1]

\* -------------------------------------------------------------------- C31
\* C31: the executor passes a tool call to the tool dispatcher only when
\* the tool it names is in the enabled-tool list of the executing agent.
C31_DispatchOnlyEnabled ==
    [][ (hpc = "exec" /\ stack # <<>> /\ Top(Machine).pc = "tool" /\ lastEvent'.op = "tool")
            => Top(Machine).calls[Top(Machine).idx][1] \in enabled_tools(Top(Machine).tools) ]_vars

\* -------------------------------------------------------------------- C32
\* the positions of the execution_step frames in the client stream
StepFrames == { i \in DOMAIN frames : frames[i].type = "execution_step" }

IsActionFrame(i) == frames[i].observation = None
IsObservationFrame(i) == frames[i].observation # None

\* the frame at i is a step of the parent of the nested execution that
\* wrote the frame at j
ParentFrameOf(i, j) == i \in StepFrames /\ frames[i].exec = frames[j].exec - 1

\* frame i is the Action step of the parent's iteration that issued the
\* delegation of the nested step at j: between them the parent has only
\* written Observation steps of that iteration, and no ancestor has written
IssuingAction(i, j) ==
    /\ i < j
    /\ ParentFrameOf(i, j)
    /\ IsActionFrame(i)
    /\ \A k \in StepFrames :
        (i < k /\ k < j)
            => /\ frames[k].exec >= frames[i].exec
               /\ frames[k].exec = frames[i].exec
                    => /\ IsObservationFrame(k)
                       /\ frames[k].stepNumber = frames[i].stepNumber
                       /\ frames[k].start = frames[i].start

\* frame k is the first frame that an ancestor wrote after the nested step j
FirstAncestorFrameAfter(k, j) ==
    /\ k \in StepFrames
    /\ j < k
    /\ frames[k].exec < frames[j].exec
    /\ \A m \in StepFrames : (j < m /\ m < k) => frames[m].exec >= frames[j].exec

\* the steps of one execution: same depth, same start
SameExecution(i, j) ==
    frames[i].exec = frames[j].exec /\ frames[i].start = frames[j].start

\* C32: in the client stream of a chat every step of a nested execution
\* comes after the Action step of the parent's iteration that issued the
\* delegation and before the parent's Observation step of that
\* delegate_to_agent call, and between two steps of one nested execution
\* there is no step of another execution of the same or a lesser depth.
C32_NestedStepsBracketed ==
    \A j \in StepFrames :
        frames[j].exec >= 1 =>
            /\ \E i \in StepFrames : IssuingAction(i, j)
            /\ \A k \in StepFrames :
                FirstAncestorFrameAfter(k, j)
                    => /\ ParentFrameOf(k, j)
                       /\ IsObservationFrame(k)
                       /\ IsDelegateCall(frames[k].action)
                       /\ \E i \in StepFrames :
                            /\ IssuingAction(i, j)
                            /\ SameExecution(i, k)
                            /\ frames[i].stepNumber = frames[k].stepNumber
            /\ \A k \in StepFrames :
                (j < k /\ SameExecution(j, k))
                    => \A m \in StepFrames :
                        (j < m /\ m < k)
                            => /\ frames[m].exec >= frames[j].exec
                               /\ frames[m].exec = frames[j].exec => SameExecution(j, m)

\* one response delegated twice: the stream holds the steps of two nested
\* executions of the top-level execution, each followed by the parent's
\* Observation step of its call
C32_Witness ==
    \E j1, k1, j2, k2 \in StepFrames :
        /\ j1 < k1 /\ k1 < j2 /\ j2 < k2
        /\ frames[j1].exec = 1 /\ frames[j2].exec = 1
        /\ ~SameExecution(j1, j2)
        /\ FirstAncestorFrameAfter(k1, j1)
        /\ FirstAncestorFrameAfter(k2, j2)
        /\ frames[k1].stepNumber = frames[k2].stepNumber

\* -------------------------------------------------------------------- C33
\* the steps sent so far that the stream still holds: written or queued
SentSteps == { frames[i] : i \in StepFrames } \cup { StepFrame(chan[i]) : i \in DOMAIN chan }

\* the Observation step of call k of the current response of execution f
\* has been sent
ObservationSent(f, k) ==
    \E s \in SentSteps :
        /\ s.exec = f.depth /\ s.start = f.start
        /\ s.stepNumber = f.iteration
        /\ s.observation # None
        /\ s.action = f.calls[k]
        /\ Cardinality({ t \in SentSteps :
                /\ t.exec = f.depth /\ t.start = f.start
                /\ t.stepNumber = f.iteration /\ t.observation # None
                /\ t.seq <= s.seq }) = k

\* the calls named by the "Latest Observations" message
ObservedCalls(message) == [i \in DOMAIN message.observations |-> message.observations[i].call]

\* C33: the tool calls of an action response are handed to the tool
\* executor once each, in the order of the response, one at a time: call
\* k+1 is dispatched only after the Observation step of call k was sent,
\* and when the tool loop has ended every call of the response was
\* dispatched.
C33_SequentialDispatch ==
    /\ \A d \in DOMAIN stack :
        LET f == stack[d]
        IN  /\ f.pc = "tool"
                => /\ f.dispatched = SubSeq(f.calls, 1, f.idx - 1)
                   /\ \A k \in 1..(f.idx - 1) : ObservationSent(f, k)
            /\ f.pc = "wait"
                => /\ f.dispatched = SubSeq(f.calls, 1, f.idx)
                   /\ \A k \in 1..(f.idx - 1) : ObservationSent(f, k)
                   /\ ~ObservationSent(f, f.idx)
            /\ (f.pc \in {"reason", "act"} /\ f.messages[Len(f.messages)].kind = "observations")
                => f.dispatched = ObservedCalls(f.messages[Len(f.messages)])
    /\ \A i \in DOMAIN returned :
        returned[i].lastMessage.kind = "observations"
            => returned[i].dispatched = ObservedCalls(returned[i].lastMessage)

\* the second call of a response is about to be dispatched after the first
\* one, a delegation, has run a nested execution that sent steps
C33_Witness ==
    /\ stack # <<>>
    /\ stack[1].pc = "tool"
    /\ stack[1].idx = MaxCalls
    /\ IsDelegateCall(stack[1].calls[1])
    /\ ~IsDelegateCall(stack[1].calls[2])
    /\ \E s \in SentSteps : s.exec = 1 /\ s.start >= stack[1].start + 1
    /\ ObservationSent(stack[1], 1)

\* -------------------------------------------------------------------- C34
IsPrefix(s, t) == Len(s) <= Len(t) /\ SubSeq(t, 1, Len(s)) = s

MessagesOfRole(messages, role) == { i \in DOMAIN messages : messages[i].role = role }

\* the execution at depth d goes on over the step
Continues(d) ==
    /\ d \in DOMAIN stack /\ d \in DOMAIN stack'
    /\ stack[d].start = stack'[d].start

\* the "Latest Observations" message of a tool loop over the calls, that
\* began with the observations seen: one formatted observation per call,
\* in the order of the calls, a blank line between neighbours
HoldsAllObservations(message, calls, seen) ==
    /\ message.role = "user"
    /\ Len(message.content) = 2 * Len(calls) - 1
    /\ \A k \in 1..Len(calls) :
        /\ message.content[2 * k - 1].call = calls[k]
        /\ k <= Len(seen) => message.content[2 * k - 1] = seen[k]
        /\ k < Len(calls) => message.content[2 * k] = BlankLine

\* C34: the conversation buffer of an execution only grows at its end, and
\* an iteration that executes tools adds one assistant message when the
\* tool loop starts and exactly one user message when it ends, which holds
\* the formatted observations of all calls of the iteration separated by
\* blank lines.
C34_BufferAppendOnly ==
    /\ [](\A d \in DOMAIN stack :
            LET f == stack[d]
            IN  Cardinality(MessagesOfRole(f.messages, "user"))
                    = 1 + Cardinality(MessagesOfRole(f.messages, "assistant"))
                        - (IF f.pc \in {"tool", "wait"} THEN 1 ELSE 0))
    /\ [][ \A d \in DOMAIN stack :
            LET f == stack[d]
            IN  /\ Continues(d) =>
                    /\ IsPrefix(f.messages, stack'[d].messages)
                    /\ (f.pc \in {"tool", "wait"} /\ stack'[d].pc \notin {"tool", "wait"})
                        => /\ stack'[d].messages = Append(f.messages,
                                    stack'[d].messages[Len(stack'[d].messages)])
                           /\ HoldsAllObservations(stack'[d].messages[Len(stack'[d].messages)],
                                                   f.calls, f.observations)
                    /\ (f.pc \in {"tool", "wait"} /\ stack'[d].pc \in {"tool", "wait"})
                        => stack'[d].messages = f.messages
                /\ (f.pc \in {"tool", "wait"} /\ d \notin DOMAIN stack')
                    => \E i \in DOMAIN returned' :
                        /\ returned'[i].exec = f.depth
                        /\ HoldsAllObservations(returned'[i].lastMessage, f.calls,
                                                f.observations) ]_vars

\* an execution has run a tool loop of two calls and is in its next
\* iteration: its buffer ends with the message of both observations
C34_Witness ==
    /\ stack # <<>>
    /\ stack[1].pc = "act"
    /\ stack[1].iteration = 2
    /\ Len(stack[1].messages) = 4
    /\ Len(stack[1].messages[4].content) = 2 * MaxCalls - 1
    /\ stack[1].messages[4].content[2] = BlankLine

\* -------------------------------------------------------------------- C35
\* the frames that create, update or delete one record of a store
RecordMutations ==
    {"create_agent", "update_agent", "delete_agent",
     "create_prompt", "update_prompt", "delete_prompt"}

\* C35: when the write of the store file fails during a create, update or
\* delete of an agent or a prompt, the in-memory maps are what they were
\* before the request.
C35_FailedSaveKeepsMap ==
    [][ (nsavefail' > nsavefail /\ request'.type \in RecordMutations)
            => (agents' = agents /\ prompts' = prompts) ]_vars

\* -------------------------------------------------------------------- C36
\* C36: in the agent store every key is the id of the record stored under
\* it.
C36_KeyIsRecordId == \A k \in DOMAIN agents : agents[k].id = k

\* -------------------------------------------------------------------- C37
\* every task spawned by the read loop has ended
RelayTasksDone == \A r \in DOMAIN relay.tasks : relay.tasks[r].pc = "done"

\* C37: once the read loop has ended, the handler tasks have ended and
\* the channel is drained, no sender of the outgoing channel is left
\* unless the writer task has ended already, so that the writer task
\* terminates and the await on it completes.
C37_SendersReleased ==
    (relay.pc = "await_writer" /\ RelayTasksDone /\ relay.chan = <<>>)
        => (relay.senders = {} \/ relay.writer = "done")

\* -------------------------------------------------------------------- C38
\* the positions in a message sequence of the messages of one type that
\* answer inbound message r
PositionsOf(messages, type, r) ==
    { i \in DOMAIN messages : messages[i] = Outgoing(type, r) }

\* C38: on the outgoing channel no execution step of a chat request comes
\* after the ChatResponse of the same request, a request has at most one
\* ChatResponse, and what the writer task has written to the socket is the
\* beginning of what was placed on the channel, in the same order.
C38_ResponseAfterSteps ==
    /\ \A r \in DOMAIN relay.tasks :
        /\ Cardinality(PositionsOf(relay.placed, "chat_response", r)) <= 1
        /\ \A i \in PositionsOf(relay.placed, "execution_step", r) :
           \A j \in PositionsOf(relay.placed, "chat_response", r) : i < j
        /\ (relay.tasks[r].kind = "chat_request" /\ relay.writer = "running")
            => /\ Cardinality(PositionsOf(relay.placed, "execution_step", r))
                    = relay.tasks[r].nsteps
               /\ PositionsOf(relay.placed, "chat_response", r) # {}
                    => relay.tasks[r].pc = "done"
    /\ IsPrefix(relay.written, relay.placed)

\* two chat requests were handled at the same time: their steps alternate
\* on the channel, both were answered and everything was written
C38_Witness ==
    /\ Len(relay.tasks) = 2
    /\ relay.written = relay.placed
    /\ Len(relay.placed) = 2 * MaxRelaySteps + 2
    /\ relay.placed[1] = Outgoing("execution_step", 1)
    /\ relay.placed[2] = Outgoing("execution_step", 2)
    /\ relay.placed[3] = Outgoing("execution_step", 1)
    /\ relay.placed[Len(relay.placed)] = Outgoing("chat_response", 1)
    /\ PositionsOf(relay.placed, "chat_response", 2) # {}

\* -------------------------------------------------------------------- C39
\* C39: check_loop(tool_name, args) answers true exactly when the history
\* before the call holds at least two entries of the same tool name and
\* equal arguments.
C39_LoopIffSameCallTwice ==
    detector.nchecks > 0
        => (detector.last.answer
                <=> CountIn(detector.last.before,
                            << detector.last.tool_name, detector.last.args >>) >= 2)

\* -------------------------------------------------------------------- C40
\* C40: interpolate terminates: a turn of the loop of
\* interpolate_functions that does not end the loop changes the string the
\* loop works on, so that no turn is repeated for ever.
C40_EveryTurnProgresses ==
    [][ (interp.pc = "functions" /\ interp'.pc = "functions")
            => interp'.result # interp.result ]_vars

====
